---- MODULE Spec2Model ----
(***************************************************************************)
(* A model of the logging and alerting pipeline of prisma-shared:          *)
(*   src/src/common/utils/log_monitor.py  (LogMonitor, the alert registry) *)
(*   src/src/common/utils/logging.py      (AsyncLogHandler, the trace      *)
(*                                         context, StructuredFormatter)   *)
(* Several specifications share the variables of the module; each one      *)
(* runs a part of the program: SpecMonitor one LogMonitor on a stream of   *)
(* lines, SpecLogging caller threads and the background workers of the     *)
(* asynchronous handlers, the others are introduced where they are defined.*)
(***************************************************************************)
EXTENDS Integers, Sequences, FiniteSets, TLC

VARIABLES
    \* ---- LogMonitor (log_monitor.py) ----
    now,                \* the wall clock as last read, in whole seconds
    patterns,           \* self.patterns: the registered LogPattern list
    alert_callback,     \* TRUE when an alert callback is registered
    pattern_counts,     \* self.pattern_counts[name]['total']
    pattern_timestamps, \* self.pattern_timestamps[name]
    alert_history,      \* self.alert_history: every Alert object ever made;
                        \* an Alert object is named by its index here
    active_alerts,      \* self.active_alerts: the dict id -> Alert, in
                        \* insertion order, as a sequence of [id, ref]
    callback_calls,     \* the calls made to alert_callback, in order
    current_metrics,    \* self.current_metrics (the counters)
    reader,             \* the tail reader thread: "running" or "dead"
    match_log,          \* history: every _trigger_pattern_match, [name, at]
    phrase_lines,       \* history: lines read whose tested text has Phrase
    running,            \* self.running
    stopping,           \* TRUE while stop_monitoring is in its joins
    threads,            \* every thread start_monitoring has started, in
                        \* order: [kind, at, stopped]; stopped is history: a
                        \* stop_monitoring after its start has cleared running
    metrics_history,    \* self.metrics_history
    appended,           \* history: the snapshots ever appended to
                        \* metrics_history, counted up to one past its capacity
    last_taken,         \* history: the time at which _collect_metrics took
                        \* its last snapshot, if any: <<t>>
    in_call,            \* thread -> the LogMonitor method the thread is inside,
                        \* between its first and its last access to the alerts
    analysis,           \* the last LogAnalyzer.analyze_log_file call, if any:
                        \* <<[file, start_time, end_time, result]>>
    list_objects,       \* the list objects that hold patterns; the first is
                        \* DEFAULT_PATTERNS
    monitors,           \* the LogMonitor objects built from them:
                        \* [patterns |-> the list object self.patterns is]
    \* ---- logging.py ----
    trace_context,      \* _trace_context: thread -> the value set in its context
    handlers,           \* every handler object built by initialize, in order
    root_handlers,      \* logging.getLogger().handlers: indices into handlers
    log_calls,          \* history: every record logged, [thread, trace_id bound]
    bindings,           \* history: the trace id each caller bound last
    process,            \* the interpreter: "running" or "exited"
    dict_objects,       \* the dict objects reachable through _request_context;
                        \* the first is the default made at import
    request_context,    \* _request_context: thread -> the dict set in its context
    request_sets,       \* history: the fields each caller passed to
                        \* set_request_context itself
    scopes,             \* the "with context:" blocks each caller is inside,
                        \* outermost first: [context, explicit, prior]
    root_config,        \* what the last PrismaLogger.initialize was given and
                        \* what it left: [log_level, log_format, level,
                        \* formatter, raised]
    rendering,          \* the last record rendered by StructuredFormatter for
                        \* a caller, if any: <<[record, output]>>
    writing,            \* handler -> the calls of its target_handler.emit in
                        \* progress: [thread, record]
    write_errors,       \* history: the writes of a worker that raised:
                        \* [handler, record]
    terminated          \* the handlers whose worker thread has ended

objectVars == <<list_objects, monitors>>

monitorVars == <<now, patterns, alert_callback, pattern_counts,
                 pattern_timestamps, alert_history, active_alerts,
                 callback_calls, current_metrics, reader, match_log,
                 phrase_lines, running, stopping, threads, metrics_history,
                 appended, last_taken, in_call, analysis, objectVars>>

lifecycleVars == <<running, stopping, threads, metrics_history, appended,
                   last_taken>>

callVars == <<in_call, analysis>>

configVars == <<root_config, rendering>>

requestVars == <<dict_objects, request_context, request_sets>>

sinkVars == <<writing, write_errors, terminated>>

loggingVars == <<trace_context, handlers, root_handlers, log_calls,
                 bindings, process, requestVars, scopes, configVars,
                 sinkVars>>

vars == <<monitorVars, loggingVars>>

None == "None"

(***************************************************************************)
(* Time.  datetime.now() and time.time() are read in whole seconds.  The   *)
(* clock is read at the instants below: the scenario times of the          *)
(* specification (0, 4 min, 6 min), two instants inside one minute, and    *)
(* two instants about one day later.                                       *)
(***************************************************************************)
SecondsPerMinute == 60
SecondsPerDay == 86400
MergeWindowSeconds == 300

Instants == {0, 30, 240, 360, 86280, 86460}

\* the lines read by one monitor
MaxLines == 4

(***************************************************************************)
(* Text.  A text is a sequence of words; str.upper() and re.IGNORECASE     *)
(* fold the case of each word.                                             *)
(***************************************************************************)
Upper(w) ==
    CASE w = "error" -> "ERROR"
      [] w = "warning" -> "WARNING"
      [] w = "critical" -> "CRITICAL"
      [] OTHER -> w

UpperText(text) == [i \in DOMAIN text |-> Upper(text[i])]

\* 'WORD' in line.upper()
InUpper(word, text) == \E i \in DOMAIN text : Upper(text[i]) = word

\* compiled_pattern.search(text) for the regex w1.*w2.*...wn, re.IGNORECASE
RECURSIVE Search(_, _)
Search(regex, text) ==
    IF regex = <<>> THEN TRUE
    ELSE IF text = <<>> THEN FALSE
    ELSE IF Upper(Head(text)) = Upper(Head(regex))
         THEN Search(Tail(regex), Tail(text))
         ELSE Search(regex, Tail(text))

\* the words of phrase appear next to each other in text
Contains(phrase, text) ==
    \E k \in 0..(Len(text) - Len(phrase)) :
        \A i \in 1..Len(phrase) : text[k + i] = phrase[i]

(***************************************************************************)
(* LogPattern and the lines of the monitored file.                         *)
(***************************************************************************)
LogPattern(name, regex, severity, threshold, minutes) ==
    [name |-> name, pattern |-> regex, severity |-> severity,
     threshold |-> threshold, time_window_minutes |-> minutes,
     enabled |-> TRUE]

PatternNames == {"db_errors", "error_pattern"}

DbErrors(threshold, minutes) ==
    LogPattern("db_errors", <<"database", "error">>, "CRITICAL",
               threshold, minutes)

ErrorPattern == LogPattern("error_pattern", <<"ERROR">>, "ERROR", 1, 1)

Phrase == <<"database", "connection", "error">>

\* kind: what json.loads gives: "object" (a dict), "value" (valid JSON that
\* is no dict), "invalid" (JSONDecodeError).  text: the words of the line.
Line(kind, level, message, text) ==
    [kind |-> kind, level |-> level, message |-> message, text |-> text]

Lines ==
    { Line("invalid", "", <<>>, Phrase),
      Line("object", "ERROR", Phrase, <<"ERROR">> \o Phrase),
      Line("value", "", <<>>, Phrase),
      Line("object", "info", <<"ok">>, <<"info", "ok">> \o Phrase) }

\* the text a pattern is to be tested against: the message of a structured
\* record, the whole line of any other line
TestedText(line) == IF line.kind = "object" THEN line.message ELSE line.text

\* the list object DEFAULT_PATTERNS, and what the module puts in it (five
\* patterns in the code, here the one for database errors)
DefaultPatterns == 1

DefaultPatternsValue == <<DbErrors(3, 5)>>

\* the monitors built: (patterns, alert_callback registered)
Configurations ==
    { <<<<DbErrors(3, 5)>>, TRUE>>,
      <<<<DbErrors(2, 1)>>, TRUE>>,
      <<<<DbErrors(2, 1), ErrorPattern>>, FALSE>> }

(***************************************************************************)
(* The monitor's data, threaded through the operators below as one record  *)
(* M.  M.exc is the exception in flight, None when there is none.          *)
(***************************************************************************)
Min(S) == CHOOSE x \in S : \A y \in S : x <= y

\* a float that is the quotient of two integers
Quotient(num, den) == [num |-> num, den |-> den]

\* LogMetrics as __init__ makes it: timestamp is datetime.now() then, the
\* rate 0.0
Metrics(total, errors, warnings, criticals) ==
    [total_logs |-> total, error_count |-> errors,
     warning_count |-> warnings, critical_count |-> criticals,
     timestamp |-> 0, log_rate_per_minute |-> Quotient(0, 1)]

\* details['last_occurrence'] is <<>> while the key is absent, <<t>> once set
Alert(id, pattern, count, t) ==
    [id |-> id, pattern_name |-> pattern.name, severity |-> pattern.severity,
     timestamp |-> t, count |-> count, last_occurrence |-> <<>>,
     threshold |-> pattern.threshold,
     acknowledged |-> FALSE, resolved |-> FALSE]

\* (a - b).seconds of a timedelta of d seconds: the seconds field, 0..86399,
\* the days are a field of their own
TimedeltaSeconds(d) == d % SecondsPerDay

\* d[id] = ref on a dict kept in insertion order
DictSet(d, id, ref) ==
    IF \E k \in DOMAIN d : d[k].id = id
    THEN [k \in DOMAIN d |-> IF d[k].id = id THEN [id |-> id, ref |-> ref]
                                             ELSE d[k]]
    ELSE Append(d, [id |-> id, ref |-> ref])

DictHas(d, id) == \E k \in DOMAIN d : d[k].id = id

DictGet(d, id) == d[CHOOSE k \in DOMAIN d : d[k].id = id].ref

\* a merge test with a window of one minute
WithinOneMinute(t, ts) == TimedeltaSeconds(t - ts) < SecondsPerMinute

\* the test of line 274 on an alert made at ts, at time t
WithinMergeWindow(t, ts) == TimedeltaSeconds(t - ts) < MergeWindowSeconds

\* the loop of lines 270-276: the first alert of active_alerts.values() of
\* this pattern name, unresolved and inside the merge window; 0 for None
ExistingAlert(M, name, t) ==
    LET hits == { k \in DOMAIN M.active_alerts :
                    LET a == M.alert_history[M.active_alerts[k].ref]
                    IN  /\ a.pattern_name = name
                        /\ ~a.resolved
                        /\ WithinMergeWindow(t, a.timestamp) }
    IN  IF hits = {} THEN 0 ELSE M.active_alerts[Min(hits)].ref

\* the try/except around self.alert_callback(alert), lines 304-307
UnguardedCallback(outcome) ==
    IF outcome = "raise" THEN "raised" ELSE "returned"

GuardedCallback(outcome) ==
    IF outcome = "raise" THEN "logged" ELSE "returned"

\* LogMonitor._create_alert
CreateAlert(M, pattern, count, t, outcome) ==
    LET alert_id == <<pattern.name, t>>
        existing == ExistingAlert(M, pattern.name, t)
    IN  IF existing # 0
        THEN [M EXCEPT !.alert_history[existing].count = count,
                        !.alert_history[existing].last_occurrence = <<t>>]
        ELSE LET ref == Len(M.alert_history) + 1
                 M1 == [M EXCEPT
                          !.alert_history = Append(@, Alert(alert_id, pattern, count, t)),
                          !.active_alerts = DictSet(@, alert_id, ref)]
                 stored == /\ \E k \in DOMAIN M1.active_alerts :
                                 M1.active_alerts[k].ref = ref
                           /\ ref \in DOMAIN M1.alert_history
                 result == GuardedCallback(outcome)
             IN  IF M1.alert_callback
                 THEN [M1 EXCEPT
                          !.callback_calls =
                              Append(@, [alert |-> ref, stored |-> stored,
                                         raised |-> outcome = "raise"]),
                          !.exc = IF result = "raised" THEN "Exception" ELSE None]
                 ELSE M1

\* lines 250-254: drop the timestamps that are not after the cutoff
KeepAllTimestamps(stamps, cutoff) == stamps

CleanOldTimestamps(stamps, cutoff) ==
    LET Recent(ts) == ts > cutoff IN SelectSeq(stamps, Recent)

\* line 262
AnyMatchTriggers(recent_count, threshold) == TRUE

ThresholdReached(recent_count, threshold) == recent_count >= threshold

\* LogMonitor._trigger_pattern_match
TriggerPatternMatch(M, pattern, t, outcome) ==
    LET cutoff_time == t - pattern.time_window_minutes * SecondsPerMinute
        stamps == Append(CleanOldTimestamps(M.pattern_timestamps[pattern.name],
                                            cutoff_time), t)
        recent_count == Len(stamps)
        M1 == [M EXCEPT !.pattern_counts[pattern.name] = @ + 1,
                        !.pattern_timestamps[pattern.name] = stamps,
                        !.match_log = Append(@, [name |-> pattern.name, at |-> t])]
    IN  IF ThresholdReached(recent_count, pattern.threshold)
        THEN CreateAlert(M1, pattern, recent_count, t, outcome)
        ELSE M1

\* the loop over self.patterns of _check_patterns and _process_text_log_line:
\* an exception leaves the loop
RECURSIVE CheckFrom(_, _, _, _, _)
CheckFrom(M, i, text, t, cb) ==
    IF i > Len(M.patterns) \/ M.exc # None THEN M
    ELSE LET p == M.patterns[i]
         IN  CheckFrom(IF p.enabled /\ Search(p.pattern, text)
                       THEN TriggerPatternMatch(M, p, t, cb[p.name])
                       ELSE M,
                       i + 1, text, t, cb)

\* LogMonitor._update_metrics: a JSON value that is no dict has no .get
UpdateMetrics(M, line) ==
    LET M1 == [M EXCEPT !.current_metrics.total_logs = @ + 1]
        level == Upper(line.level)
    IN  IF line.kind # "object" THEN [M1 EXCEPT !.exc = "Exception"]
        ELSE IF level = "ERROR"
             THEN [M1 EXCEPT !.current_metrics.error_count = @ + 1]
        ELSE IF level = "WARNING"
             THEN [M1 EXCEPT !.current_metrics.warning_count = @ + 1]
        ELSE IF level = "CRITICAL"
             THEN [M1 EXCEPT !.current_metrics.critical_count = @ + 1]
        ELSE M1

\* LogMonitor._check_patterns
CheckPatterns(M, line, t, cb) == CheckFrom(M, 1, line.message, t, cb)

\* LogMonitor._process_text_log_line
ProcessTextLogLine(M, line, t, cb) ==
    LET M1 == IF InUpper("ERROR", line.text)
              THEN [M EXCEPT !.current_metrics.error_count = @ + 1]
              ELSE IF InUpper("WARNING", line.text)
              THEN [M EXCEPT !.current_metrics.warning_count = @ + 1]
              ELSE IF InUpper("CRITICAL", line.text)
              THEN [M EXCEPT !.current_metrics.critical_count = @ + 1]
              ELSE M
        M2 == [M1 EXCEPT !.current_metrics.total_logs = @ + 1]
    IN  CheckFrom(M2, 1, line.text, t, cb)

\* LogMonitor._process_log_line: "except Exception" logs what the JSON path
\* raises; what the JSONDecodeError handler itself raises leaves the method
ProcessLogLine(M, line, t, cb) ==
    IF line.kind = "invalid"
    THEN ProcessTextLogLine(M, line, t, cb)
    ELSE LET M1 == UpdateMetrics(M, line)
             M2 == IF M1.exc # None THEN M1 ELSE CheckPatterns(M1, line, t, cb)
         IN  [M2 EXCEPT !.exc = None]

\* a listing that leaves the resolved alerts in
GetStoredAlertsOf(history, active) ==
    [k \in DOMAIN active |-> active[k].ref]

\* LogMonitor.get_active_alerts: the Alert objects (their refs)
GetActiveAlertsOf(history, active) ==
    LET Unresolved(e) == ~history[e.ref].resolved
        kept == SelectSeq(active, Unresolved)
    IN  [k \in DOMAIN kept |-> kept[k].ref]

GetActiveAlerts == GetActiveAlertsOf(alert_history, active_alerts)

(***************************************************************************)
(* logging.py.  Threads are the callers and one background worker for each *)
(* AsyncLogHandler ever built.  A LogRecord is named by its number in      *)
(* log_calls.  A trace id is a tuple: <<>> for no context (None), a given  *)
(* id, or a value drawn by uuid4.                                          *)
(***************************************************************************)
MaxQueueSize == 1     \* max_queue_size (10000 in the code), scaled down
MaxHandlers == 2      \* handler objects built over the run
MaxDepth == 2         \* "with" blocks a caller is inside at once
MaxRecords == 2       \* records logged over the run

NoContext == <<>>

Callers == {<<"caller", 1>>, <<"caller", 2>>}

Worker(i) == <<"worker", i>>

Threads == Callers \cup { Worker(i) : i \in 1..MaxHandlers }

GivenTraceIds == {<<"abc">>}

\* what str(uuid.uuid4()) may return: never a given id
Uuid4Values == {<<"uuid4", 1>>, <<"uuid4", 2>>}

\* PrismaLogger.create_trace_context: the trace id of the new context, where
\* uuid is what uuid4 returns
CreateTraceContext(trace_id, uuid) ==
    IF trace_id = NoContext THEN uuid ELSE trace_id

\* ContextVar.get: the value set in the reading thread's own context, or the
\* default (None)
ContextVarGet(var, thread) ==
    IF thread \in DOMAIN var THEN var[thread] ELSE NoContext

\* a variable shared by every thread of the process
GlobalVarSet(var, thread, value) ==
    [th \in Threads |-> value]

\* ContextVar.set: sets the value in the calling thread's context only
ContextVarSet(var, thread, value) ==
    [th \in DOMAIN var \cup {thread} |-> IF th = thread THEN value ELSE var[th]]

\* a dict is a function from its keys; {} is the function of no key
EmptyDict == <<>>

\* dict.update
DictUpdate(d, kwargs) ==
    [k \in DOMAIN d \cup DOMAIN kwargs |-> IF k \in DOMAIN kwargs THEN kwargs[k] ELSE d[k]]

\* the object made by "default={}" when the module is imported
DefaultDict == 1

\* _request_context.get(): the dict set in the reading thread's context, or
\* the default object, the same one for every thread
RequestContextGet(var, thread) ==
    IF thread \in DOMAIN var THEN var[thread] ELSE DefaultDict

\* StructuredFormatter.format on the given thread: the trace id is the one of
\* the context current in the rendering thread, absent when none is bound;
\* the request fields are those of the dict the rendering thread reads
Format(var, thread, record) ==
    [record |-> record, trace_id |-> ContextVarGet(var, thread), thread |-> thread,
     request |-> dict_objects[RequestContextGet(request_context, thread)]]

\* AsyncLogHandler.__init__ around a console or file handler with a
\* StructuredFormatter; is_async FALSE is the bare target handler
Handler(enable_async) ==
    [is_async |-> enable_async, queue |-> <<>>, taken |-> <<>>,
     emitted |-> <<>>, written |-> <<>>, closed |-> FALSE]

\* logging.StreamHandler.emit on the calling thread
TargetEmit(h, record, thread, var) ==
    [h EXCEPT !.written = Append(@, Format(var, thread, record))]

\* an emit that gives up on a full queue
DroppingEmit(h, record, thread, var) ==
    IF Len(h.queue) < MaxQueueSize
    THEN [h EXCEPT !.queue = Append(@, record)]
    ELSE h

\* AsyncLogHandler.emit: put_nowait, and on queue.Full the target handler
\* writes on the calling thread
AsyncEmit(h, record, thread, var) ==
    IF Len(h.queue) < MaxQueueSize
    THEN [h EXCEPT !.queue = Append(@, record)]
    ELSE TargetEmit(h, record, thread, var)

\* logging.Handler.handle, under the handler's lock
Handle(h, record, thread, var) ==
    LET h1 == IF h.is_async THEN AsyncEmit(h, record, thread, var)
                            ELSE TargetEmit(h, record, thread, var)
    IN  [h1 EXCEPT !.emitted = Append(@, record)]

\* PrismaLogger.initialize with no log_file: the handler objects after the
\* call and the new root_logger.handlers (the console handler alone); the
\* old handlers are only dropped from the list
InitializeOf(objs, enable_async) ==
    [handlers |-> Append(objs, Handler(enable_async)),
     root_handlers |-> <<Len(objs) + 1>>]

\* the names of LogLevel, which are level names of the logging module
LevelNames == {"DEBUG", "INFO", "WARNING", "ERROR", "CRITICAL"}

\* what callers and the environment (LOG_LEVEL, LOG_FORMAT) pass
LogLevelInputs == LevelNames \cup {"warning", "VERBOSE"}

LogFormatInputs == {"json", "colorful", "xml"}

\* getattr(logging, name, logging.INFO), as the name of the level found
LoggingGetAttr(name) ==
    IF name \in LevelNames THEN name ELSE "INFO"

\* PrismaLogger.initialize(log_level, log_format): the level given to the
\* root logger, the formatter given to the console handler, and whether the
\* call raised
InitializeConfig(log_level, log_format) ==
    [log_level |-> log_level, log_format |-> log_format,
     level |-> LoggingGetAttr(Upper(log_level)),
     formatter |-> IF log_format = "json" THEN "StructuredFormatter"
                                          ELSE "ColorfulFormatter",
     raised |-> FALSE]

\* the module after import: initialize_logging() has run
LoggingInitWith(enable_async) ==
    LET S == InitializeOf(<<>>, enable_async)
    IN  /\ handlers = S.handlers
        /\ root_handlers = S.root_handlers
        /\ trace_context = [th \in {} |-> NoContext]
        /\ log_calls = <<>>
        /\ bindings = [th \in Callers |-> NoContext]
        /\ process = "running"
        /\ dict_objects = <<EmptyDict>>
        /\ request_context = [th \in {} |-> DefaultDict]
        /\ request_sets = [th \in Callers |-> EmptyDict]
        /\ scopes = [th \in Callers |-> <<>>]
        /\ root_config = InitializeConfig("INFO", "json")
        /\ rendering = <<>>
        /\ writing = [i \in 1..MaxHandlers |-> {}]
        /\ write_errors = {}
        /\ terminated = {}

LoggingInit ==
    \E enable_async \in BOOLEAN : LoggingInitWith(enable_async)

\* PrismaLogger.initialize, or initialize_logging with a config, called
\* again by the application
InitializeWith(log_level, log_format, enable_async) ==
    /\ process = "running"
    /\ Len(handlers) < MaxHandlers
    /\ LET S == InitializeOf(handlers, enable_async)
       IN  /\ handlers' = S.handlers
           /\ root_handlers' = S.root_handlers
    /\ root_config' = InitializeConfig(log_level, log_format)
    /\ UNCHANGED <<trace_context, log_calls, bindings, process>>
    /\ UNCHANGED <<requestVars, scopes>>
    /\ UNCHANGED rendering
    /\ UNCHANGED sinkVars
    /\ UNCHANGED monitorVars

\* the call with the default log_level and log_format
Initialize(enable_async) ==
    InitializeWith("INFO", "json", enable_async)

\* set_trace_context(trace_id=...) on a caller thread: create_trace_context
\* draws a uuid4 when no trace_id is given
SetTraceContext(thread, trace_id) ==
    /\ process = "running"
    /\ \E uuid \in Uuid4Values :
         LET id == CreateTraceContext(trace_id, uuid)
         IN  /\ trace_context' = ContextVarSet(trace_context, thread, id)
             /\ bindings' = [bindings EXCEPT ![thread] = id]
    /\ UNCHANGED <<handlers, root_handlers, log_calls, process>>
    /\ UNCHANGED <<requestVars, scopes>>
    /\ UNCHANGED configVars
    /\ UNCHANGED sinkVars
    /\ UNCHANGED monitorVars

\* Logger.callHandlers: every handler of the root logger handles the record
RECURSIVE CallHandlers(_, _, _, _, _)
CallHandlers(objs, k, record, thread, var) ==
    IF k > Len(root_handlers)
    THEN objs
    ELSE LET i == root_handlers[k]
         IN  CallHandlers([objs EXCEPT ![i] = Handle(@, record, thread, var)],
                          k + 1, record, thread, var)

\* logger.info(...) or log_with_context(...) on a caller thread
LogOf(thread) ==
    /\ process = "running"
    /\ Len(log_calls) < MaxRecords
    /\ LET record == Len(log_calls) + 1
       IN  /\ log_calls' = Append(log_calls,
                 [thread |-> thread, trace_id |-> ContextVarGet(trace_context, thread),
                  request |-> request_sets[thread]])
           /\ handlers' = CallHandlers(handlers, 1, record, thread, trace_context)
    /\ UNCHANGED <<trace_context, root_handlers, bindings, process>>
    /\ UNCHANGED <<requestVars, scopes>>
    /\ UNCHANGED sinkVars
    /\ UNCHANGED monitorVars

Log(thread) ==
    /\ LogOf(thread)
    /\ UNCHANGED configVars

\* Python values: a str, or a member of the enum LogCategory
PyStr(text) == [type |-> "str", v |-> text]

PyCategory(name) == [type |-> "LogCategory", v |-> name]

\* the members of LogCategory used, and their values
LogCategory == {"AUDIT", "API"}

CategoryValue(name) ==
    CASE name = "AUDIT" -> "audit"
      [] name = "API" -> "api"

\* str() of a member of an Enum: 'LogCategory.AUDIT'
StrOfCategory(name) ==
    CASE name = "AUDIT" -> "LogCategory.AUDIT"
      [] name = "API" -> "LogCategory.API"

\* getattr(logging, level.value): the number of the level
LevelNo(name) ==
    CASE name = "DEBUG" -> 10
      [] name = "INFO" -> 20
      [] name = "WARNING" -> 30
      [] name = "ERROR" -> 40
      [] name = "CRITICAL" -> 50

\* logging.getLevelName, which makeRecord calls for record.levelname
GetLevelName(levelno) ==
    CHOOSE name \in LevelNames : LevelNo(name) = levelno

NoCategory == "None"

Messages == {"hello", "user %s"}

\* log_with_context up to logger.handle: record.__dict__, with the key
\* category only when a category was given
MakeRecord(level, message, category) ==
    LET made == [levelname |-> PyStr(GetLevelName(LevelNo(level))),
                 msg |-> PyStr(message)]
    IN  IF category = NoCategory
        THEN made
        ELSE DictUpdate(made, [category |-> PyCategory(category)])

\* the keys of record.__dict__ the last loop of format skips
SkippedKeys ==
    {"name", "msg", "args", "levelname", "levelno", "pathname", "filename",
     "module", "lineno", "funcName", "created", "msecs", "relativeCreated",
     "thread", "threadName", "processName", "process", "getMessage"}

\* StructuredFormatter.format up to json.dumps: log_data, for a record with
\* no args (getMessage is str(msg)) and the request fields the rendering
\* thread reads
LogData(record, req_ctx) ==
    LET base == [level |-> record["levelname"], message |-> record["msg"]]
        with_request == DictUpdate(base, [k \in DOMAIN req_ctx |-> PyStr(req_ctx[k])])
        with_category ==
            IF "category" \in DOMAIN record
            THEN DictUpdate(with_request,
                     [category |-> IF record["category"].type = "LogCategory"
                                   THEN PyStr(CategoryValue(record["category"].v))
                                   ELSE record["category"]])
            ELSE with_request
        extra == DOMAIN record \ SkippedKeys
    IN  DictUpdate(with_category, [k \in extra |-> record[k]])

\* json.dumps(log_data, default=str): the text, as the set of its
\* "key": "string" members; a value that is no str goes through str()
JsonDumps(log_data) ==
    { <<k, IF log_data[k].type = "str" THEN log_data[k].v
           ELSE StrOfCategory(log_data[k].v)>> : k \in DOMAIN log_data }

\* json.loads of such a text: the dict of its members
JsonLoads(text) ==
    [k \in { member[1] : member \in text } |->
        (CHOOSE member \in text : member[1] = k)[2]]

\* log_with_context(logger, level, message, category) on a caller thread
\* whose handler writes on the calling thread: the record is handled and
\* the console handler's StructuredFormatter renders it
LogWithContext(thread, level, message, category) ==
    /\ LogOf(thread)
    /\ \A k \in DOMAIN root_handlers : ~handlers[root_handlers[k]].is_async
    /\ root_config.formatter = "StructuredFormatter"
    /\ LET record == MakeRecord(level, message, category)
           req_ctx == dict_objects[RequestContextGet(request_context, thread)]
       IN  rendering' = <<[level |-> level, message |-> message,
                           category |-> category,
                           output |-> JsonDumps(LogData(record, req_ctx))]>>
    /\ UNCHANGED root_config

\* AsyncLogHandler._process_logs, first half of a turn: queue.get
WorkerGet(i) ==
    /\ process = "running"
    /\ handlers[i].is_async
    /\ handlers[i].taken = <<>>
    /\ handlers[i].queue # <<>>
    /\ handlers' = [handlers EXCEPT ![i].taken = <<Head(handlers[i].queue)>>,
                                    ![i].queue = Tail(@)]
    /\ UNCHANGED <<trace_context, root_handlers, log_calls, bindings, process>>
    /\ UNCHANGED <<requestVars, scopes>>
    /\ UNCHANGED configVars
    /\ UNCHANGED sinkVars
    /\ UNCHANGED monitorVars

\* AsyncLogHandler._process_logs, second half: target_handler.emit on the
\* worker thread, then task_done
WorkerEmit(i) ==
    /\ process = "running"
    /\ handlers[i].taken # <<>>
    /\ handlers' = [handlers EXCEPT
           ![i] = [TargetEmit(@, handlers[i].taken[1], Worker(i), trace_context)
                      EXCEPT !.taken = <<>>]]
    /\ UNCHANGED <<trace_context, root_handlers, log_calls, bindings, process>>
    /\ UNCHANGED <<requestVars, scopes>>
    /\ UNCHANGED configVars
    /\ UNCHANGED sinkVars
    /\ UNCHANGED monitorVars

\* the interpreter exits: the workers are daemon threads and are not joined
Exit ==
    /\ process = "running"
    /\ process' = "exited"
    /\ UNCHANGED <<trace_context, handlers, root_handlers, log_calls, bindings>>
    /\ UNCHANGED <<requestVars, scopes>>
    /\ UNCHANGED configVars
    /\ UNCHANGED sinkVars
    /\ UNCHANGED monitorVars

\* "with set_trace_context(trace_id=...):" on a caller thread, up to the
\* body of the block: set_trace_context binds the new context, then
\* LogContext.__enter__ returns it.  prior is the binding found by the call.
WithTraceContext(thread, trace_id) ==
    /\ process = "running"
    /\ Len(scopes[thread]) < MaxDepth
    /\ \E uuid \in Uuid4Values :
         LET id == CreateTraceContext(trace_id, uuid)
         IN  /\ trace_context' = ContextVarSet(trace_context, thread, id)
             /\ bindings' = [bindings EXCEPT ![thread] = id]
             /\ scopes' = [scopes EXCEPT ![thread] =
                    Append(@, [context |-> id, explicit |-> trace_id # NoContext,
                               prior |-> ContextVarGet(trace_context, thread)])]
    /\ UNCHANGED <<handlers, root_handlers, log_calls, process>>
    /\ UNCHANGED requestVars
    /\ UNCHANGED configVars
    /\ UNCHANGED sinkVars
    /\ UNCHANGED monitorVars

\* the innermost block of a caller ends, by its last statement or by an
\* exception: LogContext.__exit__ runs, and does nothing
ExitContext(thread) ==
    /\ process = "running"
    /\ scopes[thread] # <<>>
    /\ scopes' = [scopes EXCEPT ![thread] = SubSeq(@, 1, Len(@) - 1)]
    /\ UNCHANGED <<trace_context, handlers, root_handlers, log_calls, bindings, process>>
    /\ UNCHANGED requestVars
    /\ UNCHANGED configVars
    /\ UNCHANGED sinkVars
    /\ UNCHANGED monitorVars

\* the keyword arguments callers pass to set_request_context
RequestKwargs == {[user_id |-> "alice"], [user_id |-> "bob"]}

\* PrismaLogger.set_request_context(**kwargs) on a caller thread: the dict
\* that get() returns is updated in place and set
SetRequestContext(thread, kwargs) ==
    /\ process = "running"
    /\ LET current == RequestContextGet(request_context, thread)
       IN  /\ dict_objects' = [dict_objects EXCEPT ![current] = DictUpdate(@, kwargs)]
           /\ request_context' = ContextVarSet(request_context, thread, current)
    /\ request_sets' = [request_sets EXCEPT ![thread] = DictUpdate(@, kwargs)]
    /\ UNCHANGED <<trace_context, handlers, root_handlers, log_calls, bindings, process>>
    /\ UNCHANGED scopes
    /\ UNCHANGED configVars
    /\ UNCHANGED sinkVars
    /\ UNCHANGED monitorVars

\* handler.close() on an adapter: AsyncLogHandler defines no close, so
\* logging.Handler.close runs; it takes the handler out of the module's
\* handler registry and touches neither the queue nor the thread
Close(i) ==
    /\ process = "running"
    /\ handlers[i].is_async
    /\ ~handlers[i].closed
    /\ handlers' = [handlers EXCEPT ![i].closed = TRUE]
    /\ UNCHANGED <<trace_context, root_handlers, log_calls, bindings, process>>
    /\ UNCHANGED <<requestVars, scopes>>
    /\ UNCHANGED configVars
    /\ UNCHANGED sinkVars
    /\ UNCHANGED monitorVars

\* where the thread of AsyncLogHandler i is: _process_logs is "while True"
\* with no break and no return, and every Exception of a turn is swallowed,
\* so the thread is in the loop until the interpreter exits and kills it
\* (daemon=True)
WorkerAt(i) ==
    IF ~handlers[i].is_async THEN "none"
    ELSE IF process = "exited" THEN "killed"
    ELSE IF handlers[i].taken = <<>> THEN "get"
    ELSE "emit"

LoggingNext ==
    \/ \E enable_async \in BOOLEAN : Initialize(enable_async)
    \/ \E thread \in Callers : SetTraceContext(thread, NoContext)
    \/ \E thread \in Callers : Log(thread)
    \/ \E i \in DOMAIN handlers : WorkerGet(i)
    \/ \E i \in DOMAIN handlers : WorkerEmit(i)
    \/ Exit

(***************************************************************************)
(* SpecMonitor: one LogMonitor, its tail reader reading lines, the clock,  *)
(* and the callers of acknowledge_alert and resolve_alert.                 *)
(***************************************************************************)
CallbackOutcomes == {"return", "raise"}

\* the threads that run LogMonitor methods: the tail reader and a caller
AccessThreads == {"reader", "caller"}

\* a thread is inside no method: <<>>; inside one: <<the call>>
NoCalls == [th \in AccessThreads |-> <<>>]

MonitorState ==
    [patterns |-> patterns, alert_callback |-> alert_callback,
     pattern_counts |-> pattern_counts,
     pattern_timestamps |-> pattern_timestamps,
     alert_history |-> alert_history, active_alerts |-> active_alerts,
     callback_calls |-> callback_calls, current_metrics |-> current_metrics,
     match_log |-> match_log, exc |-> None]

\* LogMonitor.__init__
MonitorInitWith(c) ==
    /\ now = 0
    /\ patterns = c[1]
    /\ alert_callback = c[2]
    /\ pattern_counts = [n \in PatternNames |-> 0]
    /\ pattern_timestamps = [n \in PatternNames |-> <<>>]
    /\ alert_history = <<>>
    /\ active_alerts = <<>>
    /\ callback_calls = <<>>
    /\ current_metrics = Metrics(0, 0, 0, 0)
    /\ reader = "running"
    /\ match_log = <<>>
    /\ phrase_lines = 0
    /\ running = FALSE
    /\ stopping = FALSE
    /\ threads = <<>>
    /\ metrics_history = <<>>
    /\ appended = 0
    /\ last_taken = <<>>
    /\ list_objects = <<DefaultPatternsValue>>
    /\ monitors = <<>>
    /\ in_call = NoCalls
    /\ analysis = <<>>

MonitorInit ==
    \E c \in Configurations : MonitorInitWith(c)

\* one turn of the loop of LogMonitor._monitor_logs on a line of the file,
\* read when the clock shows t: an exception that leaves _process_log_line
\* ends the thread
ReadLineOf(line, t, cb) ==
    /\ reader = "running"
    /\ current_metrics.total_logs < MaxLines
    /\ t >= now
    /\ now' = t
    /\ LET M == ProcessLogLine(MonitorState, line, t, cb)
       IN  /\ pattern_counts' = M.pattern_counts
           /\ pattern_timestamps' = M.pattern_timestamps
           /\ alert_history' = M.alert_history
           /\ active_alerts' = M.active_alerts
           /\ callback_calls' = M.callback_calls
           /\ current_metrics' = M.current_metrics
           /\ match_log' = M.match_log
           /\ reader' = IF M.exc # None THEN "dead" ELSE "running"
    /\ phrase_lines' = phrase_lines +
                         (IF Contains(Phrase, TestedText(line)) THEN 1 ELSE 0)
    /\ UNCHANGED <<patterns, alert_callback>>
    /\ UNCHANGED lifecycleVars
    /\ UNCHANGED loggingVars
    /\ UNCHANGED objectVars

ReadLine(line, t, cb) ==
    /\ ReadLineOf(line, t, cb)
    /\ UNCHANGED callVars

\* the ids a caller may pass: those of the stored alerts and an unknown one
UnknownId == <<"db_errors", -1>>

CallerIds == { active_alerts[k].id : k \in DOMAIN active_alerts } \cup {UnknownId}

\* an acknowledge that answers True for any id
AcknowledgeAny(history, active, alert_id) ==
    IF DictHas(active, alert_id)
    THEN [history |-> [history EXCEPT ![DictGet(active, alert_id)].acknowledged = TRUE],
          ret |-> TRUE]
    ELSE [history |-> history, ret |-> TRUE]

\* an acknowledge that closes the alert as well
AcknowledgeAndResolve(history, active, alert_id) ==
    IF DictHas(active, alert_id)
    THEN [history |-> [history EXCEPT ![DictGet(active, alert_id)].acknowledged = TRUE,
                                      ![DictGet(active, alert_id)].resolved = TRUE],
          ret |-> TRUE]
    ELSE [history |-> history, ret |-> FALSE]

\* a resolve that answers False for an alert already resolved
ResolveOnce(history, active, alert_id) ==
    IF DictHas(active, alert_id)
    THEN [history |-> [history EXCEPT ![DictGet(active, alert_id)].resolved = TRUE],
          ret |-> ~history[DictGet(active, alert_id)].resolved]
    ELSE [history |-> history, ret |-> FALSE]

\* LogMonitor.acknowledge_alert: the alerts after the call, and what it returns
AcknowledgeAlertOf(history, active, alert_id) ==
    IF DictHas(active, alert_id)
    THEN [history |-> [history EXCEPT ![DictGet(active, alert_id)].acknowledged = TRUE],
          ret |-> TRUE]
    ELSE [history |-> history, ret |-> FALSE]

\* LogMonitor.resolve_alert
ResolveAlertOf(history, active, alert_id) ==
    IF DictHas(active, alert_id)
    THEN [history |-> [history EXCEPT ![DictGet(active, alert_id)].resolved = TRUE],
          ret |-> TRUE]
    ELSE [history |-> history, ret |-> FALSE]

AcknowledgeAlert(alert_id) ==
    /\ alert_history' = AcknowledgeAlertOf(alert_history, active_alerts, alert_id).history
    /\ UNCHANGED <<now, patterns, alert_callback, pattern_counts,
                   pattern_timestamps, active_alerts, callback_calls,
                   current_metrics, reader, match_log, phrase_lines>>
    /\ UNCHANGED lifecycleVars
    /\ UNCHANGED callVars
    /\ UNCHANGED loggingVars
    /\ UNCHANGED objectVars

ResolveAlert(alert_id) ==
    /\ alert_history' = ResolveAlertOf(alert_history, active_alerts, alert_id).history
    /\ UNCHANGED <<now, patterns, alert_callback, pattern_counts,
                   pattern_timestamps, active_alerts, callback_calls,
                   current_metrics, reader, match_log, phrase_lines>>
    /\ UNCHANGED lifecycleVars
    /\ UNCHANGED callVars
    /\ UNCHANGED loggingVars
    /\ UNCHANGED objectVars

MonitorNext ==
    \/ \E line \in Lines, t \in Instants, outcome \in CallbackOutcomes :
          ReadLine(line, t, [n \in PatternNames |-> outcome])
    \/ \E alert_id \in CallerIds : ResolveAlert(alert_id)

\* the logging module as imported with its defaults (asynchronous console
\* handler, no log file)
InitMonitor == MonitorInit /\ LoggingInitWith(TRUE)

SpecMonitor == InitMonitor /\ [][MonitorNext]_vars

(***************************************************************************)
(* SpecLifecycle: start_monitoring and stop_monitoring called in any       *)
(* order by one caller, and the threads they start.  No line is appended   *)
(* to the file, so the tail reader finds nothing to read and sleeps 0.1 s  *)
(* a turn; the metrics worker sleeps metrics_interval (60 s) a turn.       *)
(* Threads that can take a step do take it in the end; nothing obliges     *)
(* the caller.                                                             *)
(***************************************************************************)
MaxStarts == 2        \* start_monitoring calls that start threads
HistoryMaxLen == 2    \* deque(maxlen=100), scaled down

Thread(kind) == [kind |-> kind, at |-> "test", stopped |-> FALSE]

ThreadIds == 1..(2 * MaxStarts)

\* LogMonitor.start_monitoring; exists: the log file is there
StartMonitoring(exists) ==
    /\ ~stopping
    /\ Len(threads) < 2 * MaxStarts
    /\ IF running \/ ~exists
       THEN UNCHANGED <<running, threads>>
       ELSE /\ running' = TRUE
            /\ threads' = threads \o <<Thread("reader"), Thread("metrics")>>
    /\ UNCHANGED stopping
    /\ UNCHANGED <<now, patterns, alert_callback, pattern_counts,
                   pattern_timestamps, alert_history, active_alerts,
                   callback_calls, current_metrics, reader, match_log,
                   phrase_lines, metrics_history, appended,
                   last_taken>>
    /\ UNCHANGED callVars
    /\ UNCHANGED loggingVars
    /\ UNCHANGED objectVars

\* LogMonitor.stop_monitoring up to its joins: running is cleared
StopMonitoring ==
    /\ ~stopping
    /\ IF ~running
       THEN UNCHANGED <<running, stopping, threads>>
       ELSE /\ running' = FALSE
            /\ stopping' = TRUE
            /\ threads' = [i \in DOMAIN threads |-> [threads[i] EXCEPT !.stopped = TRUE]]
    /\ UNCHANGED <<now, patterns, alert_callback, pattern_counts,
                   pattern_timestamps, alert_history, active_alerts,
                   callback_calls, current_metrics, reader, match_log,
                   phrase_lines, metrics_history, appended,
                   last_taken>>
    /\ UNCHANGED callVars
    /\ UNCHANGED loggingVars
    /\ UNCHANGED objectVars

\* thread.join(timeout=5) returns: the thread has ended, or the 5 seconds
\* have passed, which they do on a thread asleep for metrics_interval
JoinReturns(i) ==
    \/ threads[i].at = "done"
    \/ threads[i].kind = "metrics" /\ threads[i].at = "sleep"

\* LogMonitor.stop_monitoring returns: monitor_thread and metrics_thread,
\* the two threads started last, have been joined
StopReturns ==
    /\ stopping
    /\ JoinReturns(Len(threads) - 1)
    /\ JoinReturns(Len(threads))
    /\ stopping' = FALSE
    /\ UNCHANGED <<now, patterns, alert_callback, pattern_counts,
                   pattern_timestamps, alert_history, active_alerts,
                   callback_calls, current_metrics, reader, match_log,
                   phrase_lines, running, threads, metrics_history, appended,
                   last_taken>>
    /\ UNCHANGED callVars
    /\ UNCHANGED loggingVars
    /\ UNCHANGED objectVars

\* "while self.running:" in _monitor_logs and _collect_metrics
WorkerTest(i) ==
    /\ i \in DOMAIN threads
    /\ threads[i].at = "test"
    /\ threads' = [threads EXCEPT ![i].at = IF running THEN "body" ELSE "done"]
    /\ UNCHANGED <<now, patterns, alert_callback, pattern_counts,
                   pattern_timestamps, alert_history, active_alerts,
                   callback_calls, current_metrics, reader, match_log,
                   phrase_lines, running, stopping, metrics_history, appended,
                   last_taken>>
    /\ UNCHANGED callVars
    /\ UNCHANGED loggingVars
    /\ UNCHANGED objectVars

\* an append that makes room by dropping the newest item
DequeAppendDropNewest(deque, item) ==
    IF Len(deque) < HistoryMaxLen THEN Append(deque, item)
                                  ELSE Append(SubSeq(deque, 1, Len(deque) - 1), item)

\* deque.append with maxlen
DequeAppend(deque, item) ==
    IF Len(deque) < HistoryMaxLen THEN Append(deque, item)
                                  ELSE Append(Tail(deque), item)

\* one turn of LogMonitor._collect_metrics at current_time, lines 315-345:
\* the rate is set from the last snapshot stored when time has passed since
\* that snapshot's timestamp; the copy stored takes the timestamp
\* current_metrics has; then current_metrics.timestamp is set to current_time
CollectMetrics(metrics, history, current_time) ==
    LET last_metrics == history[Len(history)]
        rated ==
            IF Len(history) > 0 /\ current_time - last_metrics.timestamp > 0
            THEN [metrics EXCEPT !.log_rate_per_minute =
                     Quotient((metrics.total_logs - last_metrics.total_logs)
                                 * SecondsPerMinute,
                              current_time - last_metrics.timestamp)]
            ELSE metrics
    IN  [metrics_copy |-> rated,
         current_metrics |-> [rated EXCEPT !.timestamp = current_time]]

\* the body of the loop up to its sleep: the reader finds no line, the
\* metrics worker stores a copy of current_metrics
WorkerBody(i) ==
    /\ i \in DOMAIN threads
    /\ threads[i].at = "body"
    /\ threads[i].kind = "reader" => in_call["reader"] = <<>>
    /\ threads' = [threads EXCEPT ![i].at = "sleep"]
    /\ IF threads[i].kind = "metrics"
       THEN LET C == CollectMetrics(current_metrics, metrics_history, now)
            IN  /\ metrics_history' = DequeAppend(metrics_history, C.metrics_copy)
                /\ current_metrics' = C.current_metrics
                /\ last_taken' = <<now>>
       ELSE UNCHANGED <<metrics_history, current_metrics, last_taken>>
    /\ appended' = IF threads[i].kind = "metrics" /\ appended <= HistoryMaxLen
                      THEN appended + 1
                      ELSE appended
    /\ UNCHANGED <<now, patterns, alert_callback, pattern_counts,
                   pattern_timestamps, alert_history, active_alerts,
                   callback_calls, reader, match_log,
                   phrase_lines, running, stopping>>
    /\ UNCHANGED callVars
    /\ UNCHANGED loggingVars
    /\ UNCHANGED objectVars

\* time.sleep(0.1) or time.sleep(self.metrics_interval) returns
WorkerWake(i) ==
    /\ i \in DOMAIN threads
    /\ threads[i].at = "sleep"
    /\ threads' = [threads EXCEPT ![i].at = "test"]
    /\ UNCHANGED <<now, patterns, alert_callback, pattern_counts,
                   pattern_timestamps, alert_history, active_alerts,
                   callback_calls, current_metrics, reader, match_log,
                   phrase_lines, running, stopping, metrics_history, appended,
                   last_taken>>
    /\ UNCHANGED callVars
    /\ UNCHANGED loggingVars
    /\ UNCHANGED objectVars

LifecycleNext ==
    \/ \E exists \in BOOLEAN : StartMonitoring(exists)
    \/ StopMonitoring
    \/ StopReturns
    \/ \E i \in ThreadIds : WorkerTest(i)
    \/ \E i \in ThreadIds : WorkerBody(i)
    \/ \E i \in ThreadIds : WorkerWake(i)

InitLifecycle == MonitorInitWith(<<<<ErrorPattern>>, FALSE>>) /\ LoggingInitWith(TRUE)

SpecLifecycle ==
    /\ InitLifecycle
    /\ [][LifecycleNext]_vars
    /\ \A i \in ThreadIds :
          WF_vars(WorkerTest(i)) /\ WF_vars(WorkerBody(i)) /\ WF_vars(WorkerWake(i))

(***************************************************************************)
(* SpecMetrics: a monitor with no pattern is started and never stopped;    *)
(* its tail reader finds lines to read while its metrics worker stores     *)
(* snapshots of the counters.                                              *)
(***************************************************************************)
\* the reader thread, in the body of its loop, finds a line
TailLine(line) ==
    /\ running
    /\ \E i \in DOMAIN threads : threads[i].kind = "reader" /\ threads[i].at = "body"
    /\ ReadLine(line, now, [n \in PatternNames |-> "return"])

MetricsNext ==
    \/ StartMonitoring(TRUE)
    \/ \E i \in ThreadIds : WorkerTest(i)
    \/ \E i \in ThreadIds : WorkerBody(i)
    \/ \E i \in ThreadIds : WorkerWake(i)
    \/ \E line \in Lines : TailLine(line)

InitMetrics == MonitorInitWith(<<<<>>, FALSE>>) /\ LoggingInitWith(TRUE)

SpecMetrics == InitMetrics /\ [][MetricsNext]_vars

(***************************************************************************)
(* SpecRegistry: the alert registry of a monitor with the one pattern      *)
(* error_pattern (threshold 1): matching lines arrive at any of the        *)
(* instants, and an operator acknowledges and resolves alerts by id.       *)
(***************************************************************************)
MatchingLines == { line \in Lines : line.kind = "invalid" }

RegistryNext ==
    \/ \E line \in MatchingLines, t \in Instants :
          ReadLine(line, t, [n \in PatternNames |-> "return"])
    \/ \E alert_id \in CallerIds : AcknowledgeAlert(alert_id)
    \/ \E alert_id \in CallerIds : ResolveAlert(alert_id)

InitRegistry == MonitorInitWith(<<<<ErrorPattern>>, FALSE>>) /\ LoggingInitWith(TRUE)

SpecRegistry == InitRegistry /\ [][RegistryNext]_vars

(***************************************************************************)
(* SpecPatterns: the monitor of the test (error_pattern registered at      *)
(* construction); a caller adds, removes, disables and enables patterns    *)
(* while the tail reader reads lines that match every pattern.             *)
(***************************************************************************)
MaxPatterns == 2      \* patterns registered at once
MaxPatternLines == 2  \* lines read while patterns come and go

\* the patterns callers add: the one registered at construction again, and
\* one with a name of its own
AddedPatterns == { ErrorPattern, DbErrors(2, 1) }

\* a removal that stops at the first pattern of the name
RemoveFirstOf(registered, pattern_name) ==
    LET hits == { i \in DOMAIN registered : registered[i].name = pattern_name }
    IN  IF hits = {} THEN registered
        ELSE LET first == Min(hits)
             IN  SubSeq(registered, 1, first - 1) \o
                 SubSeq(registered, first + 1, Len(registered))

\* line 129: the list of the patterns with another name
RemovePatternOf(registered, pattern_name) ==
    LET Other(q) == q.name # pattern_name IN SelectSeq(registered, Other)

\* LogMonitor.add_pattern
AddPattern(pattern) ==
    /\ Len(patterns) < MaxPatterns
    /\ patterns' = Append(patterns, pattern)
    /\ UNCHANGED <<now, alert_callback, pattern_counts, pattern_timestamps,
                   alert_history, active_alerts, callback_calls,
                   current_metrics, reader, match_log, phrase_lines>>
    /\ UNCHANGED lifecycleVars
    /\ UNCHANGED callVars
    /\ UNCHANGED loggingVars
    /\ UNCHANGED objectVars

\* LogMonitor.remove_pattern
RemovePattern(pattern_name) ==
    /\ patterns' = RemovePatternOf(patterns, pattern_name)
    /\ UNCHANGED <<now, alert_callback, pattern_counts, pattern_timestamps,
                   alert_history, active_alerts, callback_calls,
                   current_metrics, reader, match_log, phrase_lines>>
    /\ UNCHANGED lifecycleVars
    /\ UNCHANGED callVars
    /\ UNCHANGED loggingVars
    /\ UNCHANGED objectVars

\* a caller sets the enabled flag of a registered pattern
SetEnabled(i, flag) ==
    /\ i \in DOMAIN patterns
    /\ patterns' = [patterns EXCEPT ![i].enabled = flag]
    /\ UNCHANGED <<now, alert_callback, pattern_counts, pattern_timestamps,
                   alert_history, active_alerts, callback_calls,
                   current_metrics, reader, match_log, phrase_lines>>
    /\ UNCHANGED lifecycleVars
    /\ UNCHANGED callVars
    /\ UNCHANGED loggingVars
    /\ UNCHANGED objectVars

PatternInstants == {0, 30}

PatternsNext ==
    \/ \E pattern \in AddedPatterns : AddPattern(pattern)
    \/ \E pattern_name \in PatternNames : RemovePattern(pattern_name)
    \/ \E i \in 1..MaxPatterns, flag \in BOOLEAN : SetEnabled(i, flag)
    \/ \E line \in MatchingLines, t \in PatternInstants :
          /\ current_metrics.total_logs < MaxPatternLines
          /\ ReadLine(line, t, [n \in PatternNames |-> "return"])

InitPatterns == MonitorInitWith(<<<<ErrorPattern>>, FALSE>>) /\ LoggingInitWith(TRUE)

SpecPatterns == InitPatterns /\ [][PatternsNext]_vars

(***************************************************************************)
(* SpecRate: SpecMetrics with a clock that advances between the turns of   *)
(* the threads.                                                            *)
(***************************************************************************)
RateInstants == {0, 60, 120}

\* time passes
Tick(t) ==
    /\ t > now
    /\ now' = t
    /\ UNCHANGED <<patterns, alert_callback, pattern_counts,
                   pattern_timestamps, alert_history, active_alerts,
                   callback_calls, current_metrics, reader, match_log,
                   phrase_lines>>
    /\ UNCHANGED lifecycleVars
    /\ UNCHANGED callVars
    /\ UNCHANGED loggingVars
    /\ UNCHANGED objectVars

RateNext ==
    \/ StartMonitoring(TRUE)
    \/ \E i \in ThreadIds : WorkerTest(i)
    \/ \E i \in ThreadIds : WorkerBody(i)
    \/ \E i \in ThreadIds : WorkerWake(i)
    \/ \E line \in MatchingLines : TailLine(line)
    \/ \E t \in RateInstants : Tick(t)

InitRate == MonitorInitWith(<<<<>>, FALSE>>) /\ LoggingInitWith(TRUE)

SpecRate == InitRate /\ [][RateNext]_vars

(***************************************************************************)
(* SpecSnapshot: SpecMetrics with the reader's processing of a line taken  *)
(* as two steps, its first statement on a counter and the rest, between    *)
(* which the metrics worker may run.                                       *)
(***************************************************************************)
\* the first statement on current_metrics of _process_text_log_line (the
\* level counter, lines 206-211) or of _update_metrics (total_logs, line 222)
CountFirst(M, line) ==
    IF line.kind # "invalid"
    THEN [M EXCEPT !.current_metrics.total_logs = @ + 1]
    ELSE IF InUpper("ERROR", line.text)
         THEN [M EXCEPT !.current_metrics.error_count = @ + 1]
    ELSE IF InUpper("WARNING", line.text)
         THEN [M EXCEPT !.current_metrics.warning_count = @ + 1]
    ELSE IF InUpper("CRITICAL", line.text)
         THEN [M EXCEPT !.current_metrics.critical_count = @ + 1]
    ELSE M

\* the rest of _process_log_line after that statement: total_logs and the
\* patterns for a text line (lines 213-218); the level counter and
\* _check_patterns for a JSON object (lines 224-241); for any other JSON
\* value the AttributeError of line 224, logged at line 200
ProcessRest(M, line, t, cb) ==
    IF line.kind = "invalid"
    THEN CheckFrom([M EXCEPT !.current_metrics.total_logs = @ + 1],
                   1, line.text, t, cb)
    ELSE IF line.kind # "object" THEN M
    ELSE LET level == Upper(line.level)
             M1 == IF level = "ERROR"
                   THEN [M EXCEPT !.current_metrics.error_count = @ + 1]
                   ELSE IF level = "WARNING"
                   THEN [M EXCEPT !.current_metrics.warning_count = @ + 1]
                   ELSE IF level = "CRITICAL"
                   THEN [M EXCEPT !.current_metrics.critical_count = @ + 1]
                   ELSE M
         IN  CheckPatterns(M1, line, t, cb)

\* the reader thread has read a line and runs the first statement
LineBegins(line) ==
    /\ running
    /\ \E i \in DOMAIN threads : threads[i].kind = "reader" /\ threads[i].at = "body"
    /\ reader = "running"
    /\ in_call["reader"] = <<>>
    /\ current_metrics.total_logs < MaxLines
    /\ current_metrics' = CountFirst(MonitorState, line).current_metrics
    /\ in_call' = [in_call EXCEPT !["reader"] =
           <<[method |-> "_process_log_line", line |-> line, mutates |-> TRUE]>>]
    /\ UNCHANGED <<now, patterns, alert_callback, pattern_counts,
                   pattern_timestamps, alert_history, active_alerts,
                   callback_calls, reader, match_log, phrase_lines, analysis>>
    /\ UNCHANGED lifecycleVars
    /\ UNCHANGED loggingVars
    /\ UNCHANGED objectVars

\* the reader thread runs the rest of _process_log_line
LineEnds ==
    /\ in_call["reader"] # <<>>
    /\ LET line == in_call["reader"][1].line
           M == ProcessRest(MonitorState, line, now, [n \in PatternNames |-> "return"])
       IN  /\ pattern_counts' = M.pattern_counts
           /\ pattern_timestamps' = M.pattern_timestamps
           /\ alert_history' = M.alert_history
           /\ active_alerts' = M.active_alerts
           /\ callback_calls' = M.callback_calls
           /\ current_metrics' = M.current_metrics
           /\ match_log' = M.match_log
           /\ phrase_lines' = phrase_lines +
                                (IF Contains(Phrase, TestedText(line)) THEN 1 ELSE 0)
    /\ in_call' = [in_call EXCEPT !["reader"] = <<>>]
    /\ UNCHANGED <<now, patterns, alert_callback, reader, analysis>>
    /\ UNCHANGED lifecycleVars
    /\ UNCHANGED loggingVars
    /\ UNCHANGED objectVars

SnapshotNext ==
    \/ StartMonitoring(TRUE)
    \/ \E i \in ThreadIds : WorkerTest(i)
    \/ \E i \in ThreadIds : WorkerBody(i)
    \/ \E i \in ThreadIds : WorkerWake(i)
    \/ \E line \in Lines : LineBegins(line)
    \/ LineEnds

InitSnapshot == MonitorInitWith(<<<<ErrorPattern>>, FALSE>>) /\ LoggingInitWith(TRUE)

SpecSnapshot == InitSnapshot /\ [][SnapshotNext]_vars

(***************************************************************************)
(* SpecShared: several monitors, built by create_default_monitor or from   *)
(* list objects of the caller, with patterns added and removed.            *)
(***************************************************************************)
MaxMonitors == 2      \* LogMonitor objects built
MaxLists == 3         \* list objects made

\* the lists a caller makes to build monitors from
CallerLists == { <<>>, <<ErrorPattern>> }

\* "patterns or []" in __init__: the list object given when it is not
\* empty, a new empty list when it is empty (0)
PatternsOrNew(objs, list) ==
    IF objs[list] # <<>> THEN list ELSE 0

\* the registered patterns of monitor k: the items of self.patterns
PatternsOf(k) == list_objects[monitors[k].patterns]

\* the caller makes a list of patterns
MakeList(items) ==
    /\ Len(list_objects) < MaxLists
    /\ list_objects' = Append(list_objects, items)
    /\ UNCHANGED monitors
    /\ UNCHANGED <<now, patterns, alert_callback, pattern_counts,
                   pattern_timestamps, alert_history, active_alerts,
                   callback_calls, current_metrics, reader, match_log,
                   phrase_lines>>
    /\ UNCHANGED lifecycleVars
    /\ UNCHANGED callVars
    /\ UNCHANGED loggingVars

\* LogMonitor(log_file_path, patterns) with the list object given
NewLogMonitor(list) ==
    /\ Len(monitors) < MaxMonitors
    /\ list \in DOMAIN list_objects
    /\ LET kept == PatternsOrNew(list_objects, list)
       IN  IF kept # 0
           THEN /\ monitors' = Append(monitors, [patterns |-> kept])
                /\ UNCHANGED list_objects
           ELSE /\ Len(list_objects) < MaxLists
                /\ list_objects' = Append(list_objects, <<>>)
                /\ monitors' = Append(monitors, [patterns |-> Len(list_objects) + 1])
    /\ UNCHANGED <<now, patterns, alert_callback, pattern_counts,
                   pattern_timestamps, alert_history, active_alerts,
                   callback_calls, current_metrics, reader, match_log,
                   phrase_lines>>
    /\ UNCHANGED lifecycleVars
    /\ UNCHANGED callVars
    /\ UNCHANGED loggingVars

\* create_default_monitor(log_file_path)
CreateDefaultMonitor == NewLogMonitor(DefaultPatterns)

\* add_pattern on monitor k: self.patterns.append(pattern), on the list
\* object itself
AppendInPlace(objs, mons, k, pattern) ==
    [list_objects |-> [objs EXCEPT ![mons[k].patterns] = Append(@, pattern)],
     monitors |-> mons]

\* monitor k's add_pattern(pattern)
AddPatternTo(k, pattern) ==
    /\ k \in DOMAIN monitors
    /\ Len(PatternsOf(k)) < MaxPatterns
    /\ LET after == AppendInPlace(list_objects, monitors, k, pattern)
       IN  /\ list_objects' = after.list_objects
           /\ monitors' = after.monitors
    /\ UNCHANGED <<now, patterns, alert_callback, pattern_counts,
                   pattern_timestamps, alert_history, active_alerts,
                   callback_calls, current_metrics, reader, match_log,
                   phrase_lines>>
    /\ UNCHANGED lifecycleVars
    /\ UNCHANGED callVars
    /\ UNCHANGED loggingVars

\* monitor k's remove_pattern(pattern_name): self.patterns is bound to a new
\* list
RemovePatternFrom(k, pattern_name) ==
    /\ k \in DOMAIN monitors
    /\ Len(list_objects) < MaxLists
    /\ list_objects' = Append(list_objects, RemovePatternOf(PatternsOf(k), pattern_name))
    /\ monitors' = [monitors EXCEPT ![k].patterns = Len(list_objects) + 1]
    /\ UNCHANGED <<now, patterns, alert_callback, pattern_counts,
                   pattern_timestamps, alert_history, active_alerts,
                   callback_calls, current_metrics, reader, match_log,
                   phrase_lines>>
    /\ UNCHANGED lifecycleVars
    /\ UNCHANGED callVars
    /\ UNCHANGED loggingVars

SharedNext ==
    \/ \E items \in CallerLists : MakeList(items)
    \/ \E list \in 2..MaxLists : NewLogMonitor(list)
    \/ CreateDefaultMonitor
    \/ \E k \in 1..MaxMonitors : AddPatternTo(k, ErrorPattern)
    \/ \E k \in 1..MaxMonitors, pattern_name \in PatternNames :
          RemovePatternFrom(k, pattern_name)

InitShared == MonitorInitWith(<<<<>>, FALSE>>) /\ LoggingInitWith(TRUE)

SpecShared == InitShared /\ [][SharedNext]_vars

(***************************************************************************)
(* SpecWindow: a monitor with the pattern db_errors (threshold 2, window 1 *)
(* minute) reads matching lines at instants half a window apart, so that   *)
(* a match can be exactly one window old when the next one arrives.        *)
(***************************************************************************)
WindowInstants == {0, 30, 60, 90, 120, 150}

WindowNext ==
    \E line \in MatchingLines, t \in WindowInstants :
        ReadLine(line, t, [n \in PatternNames |-> "return"])

InitWindow == MonitorInitWith(<<<<DbErrors(2, 1)>>, FALSE>>) /\ LoggingInitWith(TRUE)

SpecWindow == InitWindow /\ [][WindowNext]_vars

(***************************************************************************)
(* SpecAccess: the tail reader and a caller thread run on the same         *)
(* LogMonitor.  A method is entered at its first access to the alerts and  *)
(* left after its last; a thread switch can fall between any two bytecodes *)
(* and LogMonitor holds no lock, so nothing makes a thread wait at entry.  *)
(***************************************************************************)
CallerMethods == {"get_active_alerts", "acknowledge_alert", "resolve_alert"}

\* the reader is about to run _trigger_pattern_match and _create_alert on
\* a line that matches: they rewrite the pattern's timestamp list, scan
\* active_alerts.values() and store or update an alert
ReaderEnters(line, t) ==
    /\ reader = "running"
    /\ in_call["reader"] = <<>>
    /\ current_metrics.total_logs < MaxLines
    /\ t >= now
    /\ now' = t
    /\ in_call' = [in_call EXCEPT !["reader"] =
           <<[method |-> "_create_alert", line |-> line, mutates |-> TRUE]>>]
    /\ UNCHANGED <<patterns, alert_callback, pattern_counts,
                   pattern_timestamps, alert_history, active_alerts,
                   callback_calls, current_metrics, reader, match_log,
                   phrase_lines, analysis>>
    /\ UNCHANGED lifecycleVars
    /\ UNCHANGED loggingVars
    /\ UNCHANGED objectVars

\* _create_alert returns
ReaderLeaves ==
    /\ in_call["reader"] # <<>>
    /\ ReadLineOf(in_call["reader"][1].line, now, [n \in PatternNames |-> "return"])
    /\ in_call' = [in_call EXCEPT !["reader"] = <<>>]
    /\ UNCHANGED analysis

\* a caller thread enters get_active_alerts (the scan of
\* active_alerts.values()), acknowledge_alert or resolve_alert (the test
\* "alert_id in self.active_alerts")
CallerEnters(method, alert_id) ==
    /\ in_call["caller"] = <<>>
    /\ in_call' = [in_call EXCEPT !["caller"] =
           <<[method |-> method, alert_id |-> alert_id,
              mutates |-> method # "get_active_alerts"]>>]
    /\ UNCHANGED <<now, patterns, alert_callback, pattern_counts,
                   pattern_timestamps, alert_history, active_alerts,
                   callback_calls, current_metrics, reader, match_log,
                   phrase_lines, analysis>>
    /\ UNCHANGED lifecycleVars
    /\ UNCHANGED loggingVars
    /\ UNCHANGED objectVars

\* the caller's method returns
CallerLeaves ==
    /\ in_call["caller"] # <<>>
    /\ LET call == in_call["caller"][1]
       IN  alert_history' =
             CASE call.method = "acknowledge_alert" ->
                    AcknowledgeAlertOf(alert_history, active_alerts, call.alert_id).history
               [] call.method = "resolve_alert" ->
                    ResolveAlertOf(alert_history, active_alerts, call.alert_id).history
               [] OTHER -> alert_history
    /\ in_call' = [in_call EXCEPT !["caller"] = <<>>]
    /\ UNCHANGED <<now, patterns, alert_callback, pattern_counts,
                   pattern_timestamps, active_alerts, callback_calls,
                   current_metrics, reader, match_log, phrase_lines, analysis>>
    /\ UNCHANGED lifecycleVars
    /\ UNCHANGED loggingVars
    /\ UNCHANGED objectVars

AccessNext ==
    \/ \E line \in MatchingLines, t \in Instants : ReaderEnters(line, t)
    \/ ReaderLeaves
    \/ \E method \in CallerMethods, alert_id \in CallerIds :
          CallerEnters(method, alert_id)
    \/ CallerLeaves

InitAccess == MonitorInitWith(<<<<ErrorPattern>>, FALSE>>) /\ LoggingInitWith(TRUE)

SpecAccess == InitAccess /\ [][AccessNext]_vars

(***************************************************************************)
(* LogAnalyzer.analyze_log_file.  A file is a sequence of lines; a line is *)
(* what json.loads makes of it (kind, as for the monitor), the level and   *)
(* the timestamp of a structured record, and the words of the text.  A     *)
(* datetime is [t, aware]: an instant and whether it carries a UTC offset. *)
(***************************************************************************)
MaxFileLines == 3

NoTime == <<>>

Datetime(t, aware) == <<[t |-> t, aware |-> aware]>>

\* the 'timestamp' field of a record: absent or empty, a text that
\* fromisoformat rejects, or an ISO text
NoTimestamp == [type |-> "none"]

BadTimestamp == [type |-> "bad"]

IsoTimestamp(t, aware) == [type |-> "iso", t |-> t, aware |-> aware]

Entry(kind, level, timestamp, text) ==
    [kind |-> kind, level |-> level, timestamp |-> timestamp, text |-> text]

\* the three records of the test fixture (10:00 INFO, 10:01 ERROR, 10:02
\* WARNING, each with a Z offset), a record with a timestamp that does not
\* parse, a record with no timestamp, a text line, and a line that is
\* valid JSON but no object
Fixture ==
    << Entry("object", "INFO", IsoTimestamp(1, TRUE), <<"Test", "message">>),
       Entry("object", "ERROR", IsoTimestamp(2, TRUE), <<"Test", "error">>),
       Entry("object", "WARNING", IsoTimestamp(3, TRUE), <<"Test", "warning">>) >>

AnalyzerLines ==
    { Fixture[i] : i \in 1..3 } \cup
    { Entry("object", "CRITICAL", BadTimestamp, <<"halt">>),
      Entry("object", "error", NoTimestamp, <<"no", "time">>),
      Entry("invalid", "", NoTimestamp, <<"warning", "after", "error">>),
      Entry("value", "", NoTimestamp, <<"42">>) }

Files == UNION { [1..n -> AnalyzerLines] : n \in 0..MaxFileLines }

\* the start_time and end_time callers pass
StartTimes == {NoTime, Datetime(2, TRUE), Datetime(2, FALSE)}

EndTimes == {NoTime, Datetime(2, TRUE)}

\* a < b on datetimes: TypeError when one carries an offset and the other
\* does not
DatetimeLess(a, b) ==
    IF a.aware # b.aware THEN "TypeError"
    ELSE IF a.t < b.t THEN "True" ELSE "False"

\* lines 428-438: "skip" for a record outside the range, "keep", or the
\* exception that leaves the try of line 424
TimeFilter(entry, start_time, end_time) ==
    IF (start_time = NoTime /\ end_time = NoTime) \/ entry.timestamp.type # "iso"
    THEN "keep"
    ELSE LET before == IF start_time = NoTime THEN "False"
                       ELSE DatetimeLess(entry.timestamp, start_time[1])
             after == IF end_time = NoTime THEN "False"
                      ELSE DatetimeLess(end_time[1], entry.timestamp)
         IN  IF before = "TypeError" THEN "TypeError"
             ELSE IF before = "True" THEN "skip"
             ELSE IF after = "TypeError" THEN "TypeError"
             ELSE IF after = "True" THEN "skip"
             ELSE "keep"

Stats(total, errors, warnings, criticals) ==
    [error |-> FALSE, total_lines |-> total, error_count |-> errors,
     warning_count |-> warnings, critical_count |-> criticals]

\* the counters after a line of the given level
Counted(stats, level) ==
    CASE level = "ERROR" -> [stats EXCEPT !.error_count = @ + 1]
      [] level = "WARNING" -> [stats EXCEPT !.warning_count = @ + 1]
      [] level = "CRITICAL" -> [stats EXCEPT !.critical_count = @ + 1]
      [] OTHER -> stats

\* the first of ERROR, WARNING, CRITICAL in line.upper(), lines 464-469
Keyword(text) ==
    IF InUpper("ERROR", text) THEN "ERROR"
    ELSE IF InUpper("WARNING", text) THEN "WARNING"
    ELSE IF InUpper("CRITICAL", text) THEN "CRITICAL"
    ELSE ""

\* the body of "for line in f": the counters after the line, or
\* [error |-> TRUE] when an exception other than JSONDecodeError leaves the
\* inner try and is caught at line 471
AnalyzeLine(stats, entry, start_time, end_time) ==
    LET counted == [stats EXCEPT !.total_lines = @ + 1]
    IN  CASE entry.kind = "invalid" -> Counted(counted, Keyword(entry.text))
          [] entry.kind = "value" -> [error |-> TRUE]
          [] OTHER ->
               LET filter == TimeFilter(entry, start_time, end_time)
               IN  CASE filter = "TypeError" -> [error |-> TRUE]
                     [] filter = "skip" -> counted
                     [] OTHER -> Counted(counted, Upper(entry.level))

\* the loop of lines 421-469 from line i on
RECURSIVE AnalyzeFrom(_, _, _, _, _)
AnalyzeFrom(stats, file, i, start_time, end_time) ==
    IF stats.error \/ i > Len(file)
    THEN stats
    ELSE AnalyzeFrom(AnalyzeLine(stats, file[i], start_time, end_time),
                     file, i + 1, start_time, end_time)

\* LogAnalyzer.analyze_log_file on a file that exists: the counters of the
\* stats returned, or the error result
AnalyzeLogFileOf(file, start_time, end_time) ==
    AnalyzeFrom(Stats(0, 0, 0, 0), file, 1, start_time, end_time)

\* one call a run: the method is static and keeps nothing between calls
AnalyzeLogFile(file, start_time, end_time) ==
    /\ analysis = <<>>
    /\ analysis' = <<[file |-> file, start_time |-> start_time,
                      end_time |-> end_time,
                      result |-> AnalyzeLogFileOf(file, start_time, end_time)]>>
    /\ UNCHANGED <<now, patterns, alert_callback, pattern_counts,
                   pattern_timestamps, alert_history, active_alerts,
                   callback_calls, current_metrics, reader, match_log,
                   phrase_lines, in_call>>
    /\ UNCHANGED lifecycleVars
    /\ UNCHANGED loggingVars
    /\ UNCHANGED objectVars

AnalyzerNext ==
    \E file \in Files, start_time \in StartTimes, end_time \in EndTimes :
        AnalyzeLogFile(file, start_time, end_time)

InitAnalyzer == MonitorInitWith(<<<<>>, FALSE>>) /\ LoggingInitWith(TRUE)

SpecAnalyzer == InitAnalyzer /\ [][AnalyzerNext]_vars

(***************************************************************************)
(* SpecLogging: the caller threads, the workers of the asynchronous        *)
(* handlers and the exit of the interpreter; a LogMonitor with no pattern  *)
(* stands by.                                                              *)
(***************************************************************************)
InitLogging == LoggingInit /\ MonitorInitWith(<<<<>>, FALSE>>)

SpecLogging == InitLogging /\ [][LoggingNext]_vars

(***************************************************************************)
(* SpecWorkers: the logging module with adapters closed or replaced, the   *)
(* worker threads scheduled fairly.  The application itself need not ever  *)
(* exit.                                                                   *)
(***************************************************************************)
WorkersNext ==
    \/ LoggingNext
    \/ \E i \in DOMAIN handlers : Close(i)

InitWorkers == LoggingInit /\ MonitorInitWith(<<<<>>, FALSE>>)

SpecWorkers ==
    /\ InitWorkers
    /\ [][WorkersNext]_vars
    /\ \A i \in 1..MaxHandlers :
          /\ WF_vars(i \in DOMAIN handlers /\ WorkerGet(i))
          /\ WF_vars(i \in DOMAIN handlers /\ WorkerEmit(i))

(***************************************************************************)
(* SpecSink: one AsyncLogHandler with its worker scheduled fairly, the     *)
(* writes of its target handler taken as calls that begin and end, and a   *)
(* write of the worker free to raise.  The process keeps running.          *)
(***************************************************************************)
\* the exceptions of a turn of _process_logs
TurnExceptions == {"Empty", "Exception"}

\* a loop that has only the clause "except queue.Empty"
CaughtEmptyOnly(exc) == exc = "Empty"

\* the except clauses of _process_logs, lines 210-214
Caught(exc) == exc \in {"Empty", "Exception"}

WriteOutcomes == {"return", "raise"}

\* the threads inside target_handler.emit of handler i
Writers(i) == { w.thread : w \in writing[i] }

\* logger.info(...) on a caller thread while the queue has room: put_nowait
PutNowait(thread) ==
    /\ \A k \in DOMAIN root_handlers :
          LET i == root_handlers[k]
          IN  /\ handlers[i].is_async
              /\ Len(handlers[i].queue) < MaxQueueSize
              /\ Writers(i) \cap Callers = {}
    /\ Log(thread)

\* logger.info(...) on a caller thread while the queue is full, up to the
\* call of target_handler.emit in the except clause of line 199.  The caller
\* is inside Handler.handle of the adapter and holds the adapter's lock;
\* the target handler's own lock is taken by nobody.
CallerBegins(thread) ==
    /\ process = "running"
    /\ Len(log_calls) < MaxRecords
    /\ Len(root_handlers) = 1
    /\ LET i == root_handlers[1]
           record == Len(log_calls) + 1
       IN  /\ handlers[i].is_async
           /\ Len(handlers[i].queue) >= MaxQueueSize
           /\ Writers(i) \cap Callers = {}
           /\ log_calls' = Append(log_calls,
                 [thread |-> thread, trace_id |-> ContextVarGet(trace_context, thread),
                  request |-> request_sets[thread]])
           /\ writing' = [writing EXCEPT ![i] = @ \cup {[thread |-> thread, record |-> record]}]
    /\ UNCHANGED <<trace_context, handlers, root_handlers, bindings, process>>
    /\ UNCHANGED <<requestVars, scopes>>
    /\ UNCHANGED configVars
    /\ UNCHANGED <<write_errors, terminated>>
    /\ UNCHANGED monitorVars

\* the caller's target_handler.emit returns, and then Handler.handle
CallerEnds(thread) ==
    /\ process = "running"
    /\ \E i \in DOMAIN handlers :
         \E w \in writing[i] :
            /\ w.thread = thread
            /\ handlers' = [handlers EXCEPT
                   ![i] = [TargetEmit(@, w.record, thread, trace_context)
                              EXCEPT !.emitted = Append(@, w.record)]]
            /\ writing' = [writing EXCEPT ![i] = @ \ {w}]
    /\ UNCHANGED <<trace_context, root_handlers, log_calls, bindings, process>>
    /\ UNCHANGED <<requestVars, scopes>>
    /\ UNCHANGED configVars
    /\ UNCHANGED <<write_errors, terminated>>
    /\ UNCHANGED monitorVars

\* _process_logs, line 206: queue.get returns a record
SinkGet(i) ==
    /\ i \notin terminated
    /\ WorkerGet(i)

\* _process_logs, line 207: the worker calls target_handler.emit
WorkerBegins(i) ==
    /\ process = "running"
    /\ i \notin terminated
    /\ handlers[i].taken # <<>>
    /\ Worker(i) \notin Writers(i)
    /\ writing' = [writing EXCEPT
           ![i] = @ \cup {[thread |-> Worker(i), record |-> handlers[i].taken[1]]}]
    /\ UNCHANGED <<trace_context, handlers, root_handlers, log_calls, bindings, process>>
    /\ UNCHANGED <<requestVars, scopes>>
    /\ UNCHANGED configVars
    /\ UNCHANGED <<write_errors, terminated>>
    /\ UNCHANGED monitorVars

\* _process_logs, lines 207-214: the worker's target_handler.emit returns,
\* then task_done, or it raises an Exception, which an except clause of the
\* loop catches or which ends the thread
WorkerEnds(i, outcome) ==
    /\ process = "running"
    /\ \E w \in writing[i] :
         /\ w.thread = Worker(i)
         /\ writing' = [writing EXCEPT ![i] = @ \ {w}]
         /\ IF outcome = "return"
            THEN /\ handlers' = [handlers EXCEPT
                        ![i] = [TargetEmit(@, w.record, Worker(i), trace_context)
                                   EXCEPT !.taken = <<>>]]
                 /\ UNCHANGED <<write_errors, terminated>>
            ELSE /\ handlers' = [handlers EXCEPT ![i].taken = <<>>]
                 /\ write_errors' = write_errors \cup {[handler |-> i, record |-> w.record]}
                 /\ terminated' = IF Caught("Exception") THEN terminated
                                                           ELSE terminated \cup {i}
    /\ UNCHANGED <<trace_context, root_handlers, log_calls, bindings, process>>
    /\ UNCHANGED <<requestVars, scopes>>
    /\ UNCHANGED configVars
    /\ UNCHANGED monitorVars

SinkNext ==
    \/ \E thread \in Callers : SetTraceContext(thread, NoContext)
    \/ \E thread \in Callers : PutNowait(thread)
    \/ \E thread \in Callers : CallerBegins(thread)
    \/ \E thread \in Callers : CallerEnds(thread)
    \/ \E i \in DOMAIN handlers : SinkGet(i)
    \/ \E i \in DOMAIN handlers : WorkerBegins(i)
    \/ \E i \in DOMAIN handlers, outcome \in WriteOutcomes : WorkerEnds(i, outcome)

InitSink == LoggingInitWith(TRUE) /\ MonitorInitWith(<<<<>>, FALSE>>)

SpecSink ==
    /\ InitSink
    /\ [][SinkNext]_vars
    /\ \A i \in 1..MaxHandlers :
          /\ WF_vars(i \in DOMAIN handlers /\ SinkGet(i))
          /\ WF_vars(i \in DOMAIN handlers /\ WorkerBegins(i))
          /\ WF_vars(i \in DOMAIN handlers /\ WorkerEnds(i, "return"))

(***************************************************************************)
(* SpecConfig: the application initializes the logging system again with   *)
(* a level and a format of its choice, then logs.                          *)
(***************************************************************************)
ConfigNext ==
    \/ \E log_level \in LogLevelInputs, log_format \in LogFormatInputs,
          enable_async \in BOOLEAN :
          InitializeWith(log_level, log_format, enable_async)
    \/ \E thread \in Callers : Log(thread)
    \/ \E i \in DOMAIN handlers : WorkerGet(i)
    \/ \E i \in DOMAIN handlers : WorkerEmit(i)

InitConfig == LoggingInit /\ MonitorInitWith(<<<<>>, FALSE>>)

SpecConfig == InitConfig /\ [][ConfigNext]_vars

(***************************************************************************)
(* SpecFormat: callers set request fields and log records of any level,    *)
(* message and category through a synchronous console handler with the     *)
(* StructuredFormatter.                                                    *)
(***************************************************************************)
FormatNext ==
    \/ \E thread \in Callers, kwargs \in RequestKwargs :
          SetRequestContext(thread, kwargs)
    \/ \E thread \in Callers, level \in LevelNames, message \in Messages,
          category \in LogCategory \cup {NoCategory} :
          LogWithContext(thread, level, message, category)

InitFormat == LoggingInitWith(FALSE) /\ MonitorInitWith(<<<<>>, FALSE>>)

SpecFormat == InitFormat /\ [][FormatNext]_vars

(***************************************************************************)
(* SpecRequest: the caller threads set request fields and log, the workers *)
(* of the asynchronous handlers write.                                     *)
(***************************************************************************)
RequestNext ==
    \/ \E thread \in Callers, kwargs \in RequestKwargs : SetRequestContext(thread, kwargs)
    \/ \E thread \in Callers : Log(thread)
    \/ \E i \in DOMAIN handlers : WorkerGet(i)
    \/ \E i \in DOMAIN handlers : WorkerEmit(i)

SpecRequest == InitLogging /\ [][RequestNext]_vars

(***************************************************************************)
(* SpecScopes: the caller threads enter and leave "with" blocks of trace   *)
(* contexts, with and without a trace id of their own.                     *)
(***************************************************************************)
ScopesNext ==
    \/ \E thread \in Callers, trace_id \in GivenTraceIds \cup {NoContext} :
           WithTraceContext(thread, trace_id)
    \/ \E thread \in Callers : ExitContext(thread)

SpecScopes == InitLogging /\ [][ScopesNext]_vars

(***************************************************************************)
(* Properties of the monitor (SpecMonitor).                                *)
(***************************************************************************)
Registered == { patterns[i] : i \in DOMAIN patterns }

\* the Alert objects made for a pattern name
AlertsOf(name) == { i \in DOMAIN alert_history : alert_history[i].pattern_name = name }

\* the times of the matches of a pattern name, in order
MatchTimes(name) ==
    LET OfName(e) == e.name = name
        hits == SelectSeq(match_log, OfName)
    IN  [k \in DOMAIN hits |-> hits[k].at]

\* the matches of pattern p that are less than its window old at the clock's
\* last reading
InWindowMatches(p) ==
    Cardinality({ i \in DOMAIN match_log :
                    /\ match_log[i].name = p.name
                    /\ match_log[i].at > now - p.time_window_minutes * SecondsPerMinute })

IsStored(i) == \E k \in DOMAIN active_alerts : active_alerts[k].ref = i

\* the entries of active_alerts whose id is of a pattern name
StoredOf(name) ==
    { active_alerts[k] : k \in { j \in DOMAIN active_alerts :
                                   active_alerts[j].id[1] = name } }

\* the callback calls made with an alert of a pattern name
CallsOf(name) ==
    { i \in DOMAIN callback_calls :
        alert_history[callback_calls[i].alert].pattern_name = name }

\* C1: while a pattern has had fewer than its threshold T of matches less than
\* W minutes old, no alert of that pattern exists; the step that makes the
\* pattern's first alert is the match that brings that count to T, and it
\* makes exactly one alert, stored and unresolved, with count T, the
\* pattern's severity and the time of that match.
C1_SlidingWindowCreation ==
    /\ [](\A p \in Registered :
            AlertsOf(p.name) = {} => InWindowMatches(p) < p.threshold)
    /\ [][\A p \in Registered :
            (AlertsOf(p.name) = {} /\ AlertsOf(p.name)' # {}) =>
                /\ Cardinality(AlertsOf(p.name)') = 1
                /\ InWindowMatches(p)' = p.threshold
                /\ \A i \in AlertsOf(p.name)' :
                      /\ alert_history'[i].count = p.threshold
                      /\ alert_history'[i].severity = p.severity
                      /\ alert_history'[i].timestamp = now'
                      /\ ~alert_history'[i].resolved
                      /\ IsStored(i)']_vars

\* C1 witness: threshold 3, window 5 min, matches at 0, 0 and 4 min: one
\* alert with count 3 made at 4 min.
C1_Witness ==
    /\ patterns = <<DbErrors(3, 5)>>
    /\ MatchTimes("db_errors") = <<0, 0, 240>>
    /\ Len(alert_history) = 1
    /\ alert_history[1].count = 3
    /\ alert_history[1].timestamp = 240
    /\ alert_history[1].severity = "CRITICAL"

\* C2: when _create_alert runs for a pattern (a match brought the count to
\* the threshold or above) and a stored, unresolved alert of that pattern
\* name made less than 5 minutes ago exists, that alert's count becomes the
\* new count and its last_occurrence the time of the call, and no alert of
\* that pattern is added to alert_history or active_alerts and no callback
\* is made.
C2_CreateOrMerge ==
    [][\A p \in Registered :
        LET name == p.name
            count == Len(pattern_timestamps'[name])
            called == /\ pattern_counts'[name] = pattern_counts[name] + 1
                      /\ count >= p.threshold
        IN  called =>
              \A k \in DOMAIN active_alerts :
                 LET i == active_alerts[k].ref
                     a == alert_history[i]
                 IN  ( /\ a.pattern_name = name
                       /\ ~a.resolved
                       /\ now' - a.timestamp < MergeWindowSeconds ) =>
                        /\ alert_history'[i].count = count
                        /\ alert_history'[i].last_occurrence = <<now'>>
                        /\ AlertsOf(name)' = AlertsOf(name)
                        /\ StoredOf(name)' = StoredOf(name)
                        /\ CallsOf(name)' = CallsOf(name)]_vars

\* the scenario of C3: threshold 3, window 5 min, matches at 0, 0, 4 min and
\* 6 min, no alert resolved
C3_Scenario ==
    /\ patterns = <<DbErrors(3, 5)>>
    /\ MatchTimes("db_errors") = <<0, 0, 240, 360>>
    /\ \A i \in DOMAIN alert_history : ~alert_history[i].resolved

C4_EndToEnd ==
    ( /\ patterns = <<DbErrors(3, 5)>>
      /\ current_metrics.total_logs = 3
      /\ phrase_lines = 3
      /\ now <= 60 ) =>
        IF \A i \in DOMAIN alert_history : ~alert_history[i].resolved
        THEN /\ Len(GetActiveAlerts) = 1
             /\ alert_history[GetActiveAlerts[1]].count = 3
             /\ alert_history[GetActiveAlerts[1]].severity = "CRITICAL"
        ELSE GetActiveAlerts = <<>>

\* C5: with a callback registered, the calls made to it are exactly the
\* alerts made, one call each, in order, each made when its alert was already
\* in active_alerts and alert_history; whatever the callback does (return or
\* raise), the step that makes an alert leaves it stored and the reader
\* thread running, so later lines are processed.
C5_CallbackOncePerAlert ==
    /\ [](/\ reader = "running"
          /\ alert_callback =>
                /\ Len(callback_calls) = Len(alert_history)
                /\ \A i \in DOMAIN callback_calls :
                      callback_calls[i].alert = i /\ callback_calls[i].stored
          /\ ~alert_callback => callback_calls = <<>>)
    /\ [][\A i \in (Len(alert_history) + 1)..Len(alert_history') :
            /\ IsStored(i)'
            /\ reader' = "running"]_vars

\* C5 witness: the callback raised on the first alert, the alert is stored,
\* and a later line was processed and merged into it.
C5_Witness ==
    /\ Len(callback_calls) = 1
    /\ callback_calls[1].raised
    /\ IsStored(1)
    /\ alert_history[1].last_occurrence # <<>>
    /\ reader = "running"

(***************************************************************************)
(* Properties of the handlers and the trace context (SpecLogging).         *)
(***************************************************************************)
AsyncHandlers == { i \in DOMAIN handlers : handlers[i].is_async }

Last(seq) == seq[Len(seq)]

\* the place of a record in the order of the emit() calls on a handler
EmitIndex(h, record) == CHOOSE n \in DOMAIN h.emitted : h.emitted[n] = record

\* an asynchronous handler is shut down when initialize has taken it off the
\* root logger or the interpreter has exited
ShutDown(i) ==
    \/ process = "exited"
    \/ \A k \in DOMAIN root_handlers : root_handlers[k] # i

\* C6: every emit() on an AsyncLogHandler ends within the call, and the
\* record is kept: while the queue has room the record is put at the tail of
\* the queue and nothing is written; when the queue is full the queue is left
\* alone and the record is written through the target handler by the calling
\* thread.
C6_EmitEnqueuesOrWritesThrough ==
    [][\A i \in AsyncHandlers :
          handlers'[i].emitted # handlers[i].emitted =>
            LET h == handlers[i]
                h2 == handlers'[i]
                record == Last(h2.emitted)
            IN  /\ h2.emitted = Append(h.emitted, record)
                /\ IF Len(h.queue) < MaxQueueSize
                   THEN /\ h2.queue = Append(h.queue, record)
                        /\ h2.written = h.written
                   ELSE /\ h2.queue = h.queue
                        /\ Len(h2.written) = Len(h.written) + 1
                        /\ \A k \in DOMAIN h.written : h2.written[k] = h.written[k]
                        /\ Last(h2.written).record = record
                        /\ Last(h2.written).thread = log_calls'[record].thread
                        /\ Last(h2.written).thread \in Callers]_vars

\* C6 witness: a caller has written a record itself because the queue of an
\* asynchronous handler was full, and the queue still holds the older record
C6_Witness ==
    \E i \in AsyncHandlers :
        /\ Len(handlers[i].queue) = MaxQueueSize
        /\ \E k \in DOMAIN handlers[i].written :
              /\ handlers[i].written[k].thread \in Callers
              /\ handlers[i].written[k].record > handlers[i].queue[1]

\* C7: on every AsyncLogHandler the records reach the target handler in the
\* order of the emit() calls.
C7_FifoDelivery ==
    \A i \in AsyncHandlers :
        \A j, k \in DOMAIN handlers[i].written :
            j < k => EmitIndex(handlers[i], handlers[i].written[j].record)
                       < EmitIndex(handlers[i], handlers[i].written[k].record)

\* C8: once an AsyncLogHandler is shut down (taken off the root logger by
\* initialize, or the interpreter has exited) every record its emit() was
\* called on has been written; the code has no report of discarded records.
C8_DrainBeforeStop ==
    \A i \in AsyncHandlers :
        ShutDown(i) =>
            \A n \in DOMAIN handlers[i].emitted :
                \E k \in DOMAIN handlers[i].written :
                    handlers[i].written[k].record = handlers[i].emitted[n]

\* C9: every record logged while its thread had a trace context bound is
\* rendered with that context's trace id, whichever thread renders it.
C9_TraceIdRendered ==
    \A i \in DOMAIN handlers :
        \A k \in DOMAIN handlers[i].written :
            LET entry == handlers[i].written[k]
            IN  log_calls[entry.record].trace_id # NoContext =>
                    entry.trace_id = log_calls[entry.record].trace_id

\* C10: what a thread reads through _trace_context is the trace id it bound
\* last itself, or none: a caller never reads the binding of another caller,
\* a worker reads none, and a rendering holds the id read by the rendering
\* thread.
C10_TraceContextIsolation ==
    /\ \A th \in Callers : ContextVarGet(trace_context, th) = bindings[th]
    /\ \A i \in 1..MaxHandlers : ContextVarGet(trace_context, Worker(i)) = NoContext
    /\ \A i \in DOMAIN handlers :
          \A k \in DOMAIN handlers[i].written :
              LET entry == handlers[i].written[k]
              IN  IF entry.thread \in Callers
                  THEN /\ entry.thread = log_calls[entry.record].thread
                       /\ entry.trace_id = log_calls[entry.record].trace_id
                  ELSE entry.trace_id = NoContext

\* C10 witness: two callers run with different bindings, one of them has
\* rendered a record itself and a worker has rendered another
C10_Witness ==
    /\ \E t1, t2 \in Callers :
          /\ bindings[t1] # NoContext
          /\ bindings[t2] # NoContext
          /\ bindings[t1] # bindings[t2]
    /\ \E i, j \in DOMAIN handlers :
          /\ \E k \in DOMAIN handlers[i].written :
                /\ handlers[i].written[k].thread \in Callers
                /\ handlers[i].written[k].trace_id # NoContext
          /\ \E k \in DOMAIN handlers[j].written :
                handlers[j].written[k].thread \notin Callers

(***************************************************************************)
(* Properties of the request context (SpecRequest).                        *)
(***************************************************************************)
\* the request fields a thread reads through _request_context
RequestFieldsOf(thread) == dict_objects[RequestContextGet(request_context, thread)]

\* every field of seen is a field of own, with the same value
FieldsWithin(seen, own) ==
    \A k \in DOMAIN seen : k \in DOMAIN own /\ own[k] = seen[k]

\* C11: the request context a thread reads holds only fields that this
\* thread set itself (a worker, which sets none, reads none), and a rendered
\* record holds only request fields that the thread that logged it had set.
C11_RequestContextIsolation ==
    /\ \A th \in Callers : FieldsWithin(RequestFieldsOf(th), request_sets[th])
    /\ \A i \in 1..MaxHandlers : FieldsWithin(RequestFieldsOf(Worker(i)), EmptyDict)
    /\ \A i \in DOMAIN handlers :
          \A k \in DOMAIN handlers[i].written :
              FieldsWithin(handlers[i].written[k].request,
                           log_calls[handlers[i].written[k].record].request)

(***************************************************************************)
(* Properties of the "with" blocks (SpecScopes).                           *)
(***************************************************************************)
\* C12: when a "with context:" block ends, the trace context of the thread
\* is again the binding that was current before the context of the block was
\* bound (none if there was none).
C12_ScopedBinding ==
    [][\A th \in Callers :
          Len(scopes'[th]) < Len(scopes[th]) =>
              ContextVarGet(trace_context', th) = Last(scopes[th]).prior]_vars

\* C13: a context bound inside the block of an outer context, with no
\* trace_id of its own, has the trace id of the outer context.
C13_TraceIdStable ==
    \A th \in Callers :
        \A k \in 2..Len(scopes[th]) :
            ~scopes[th][k].explicit =>
                scopes[th][k].context = scopes[th][k - 1].context

(***************************************************************************)
(* Properties of the alert registry (SpecRegistry).                        *)
(***************************************************************************)
StoredIds == { active_alerts[k].id : k \in DOMAIN active_alerts }

StoredRefs == { active_alerts[k].ref : k \in DOMAIN active_alerts }

\* the ids a caller can form: a pattern name and a second
AllIds == { <<n, t>> : n \in PatternNames, t \in Instants \cup {-1} }

Range(seq) == { seq[k] : k \in DOMAIN seq }

\* C14: for the id of a stored alert, resolve_alert called twice returns True
\* both times and the second call leaves the registry as the first left it;
\* the same for acknowledge_alert.
C14_Idempotent ==
    \A id \in StoredIds :
        LET r1 == ResolveAlertOf(alert_history, active_alerts, id)
            r2 == ResolveAlertOf(r1.history, active_alerts, id)
            a1 == AcknowledgeAlertOf(alert_history, active_alerts, id)
            a2 == AcknowledgeAlertOf(a1.history, active_alerts, id)
        IN  /\ r1.ret /\ r2.ret /\ r2.history = r1.history
            /\ a1.ret /\ a2.ret /\ a2.history = a1.history

\* C14 witness: a stored alert has been acknowledged and resolved, beside a
\* stored alert that has been neither
C14_Witness ==
    /\ \E ref \in StoredRefs :
          alert_history[ref].resolved /\ alert_history[ref].acknowledged
    /\ \E ref \in StoredRefs :
          ~alert_history[ref].resolved /\ ~alert_history[ref].acknowledged

\* C15: acknowledge_alert and resolve_alert on an id that is not stored
\* return False and leave every alert as it is; only reading a line ever
\* stores or creates an alert.
C15_UnknownId ==
    /\ [](\A id \in AllIds \ StoredIds :
            LET r == ResolveAlertOf(alert_history, active_alerts, id)
                a == AcknowledgeAlertOf(alert_history, active_alerts, id)
            IN  /\ ~r.ret /\ r.history = alert_history
                /\ ~a.ret /\ a.history = alert_history)
    /\ [][current_metrics' = current_metrics =>
              /\ active_alerts' = active_alerts
              /\ Len(alert_history') = Len(alert_history)]_vars

\* C15 witness: alerts of a pattern are stored, one of them acknowledged,
\* and an id of the same pattern is not stored
C15_Witness ==
    /\ \E ref \in StoredRefs : alert_history[ref].acknowledged
    /\ \E ref \in StoredRefs : ~alert_history[ref].acknowledged
    /\ \E id \in AllIds \ StoredIds : \E sid \in StoredIds : sid[1] = id[1] /\ id[2] >= 0

\* C16: get_active_alerts returns exactly the stored alerts that are not
\* resolved, each once; a resolved alert never becomes unresolved again.
C16_ActiveAlerts ==
    /\ [](/\ Range(GetActiveAlerts) = { ref \in StoredRefs : ~alert_history[ref].resolved }
          /\ \A j, k \in DOMAIN GetActiveAlerts :
                 GetActiveAlerts[j] = GetActiveAlerts[k] => j = k)
    /\ [][\A ref \in DOMAIN alert_history :
              alert_history[ref].resolved =>
                  /\ alert_history'[ref].resolved
                  /\ ref \notin Range(GetActiveAlerts)']_vars

\* C16 witness: of two stored alerts one is resolved and one is returned
C16_Witness ==
    /\ \E ref \in StoredRefs : alert_history[ref].resolved
    /\ GetActiveAlerts # <<>>

\* C17: no two alerts of alert_history have the same id.
C17_UniqueIds ==
    \A i, j \in DOMAIN alert_history :
        alert_history[i].id = alert_history[j].id => i = j

\* C18: an entry of active_alerts, once stored, stays as it is (same id,
\* same alert), and alert_history only grows.
C18_NeverDeleted ==
    [][/\ \A k \in DOMAIN active_alerts :
             /\ k \in DOMAIN active_alerts'
             /\ active_alerts'[k] = active_alerts[k]
       /\ Len(alert_history') >= Len(alert_history)
       /\ \A ref \in DOMAIN alert_history :
             alert_history'[ref].id = alert_history[ref].id]_vars

\* C19: a step that sets the acknowledged flag of an alert changes nothing
\* else in the registry, and so does a step that sets the resolved flag.
C19_IndependentFlags ==
    [][\A ref \in DOMAIN alert_history :
          /\ alert_history'[ref].acknowledged # alert_history[ref].acknowledged =>
                /\ alert_history' = [alert_history EXCEPT ![ref].acknowledged = TRUE]
                /\ active_alerts' = active_alerts
          /\ alert_history'[ref].resolved # alert_history[ref].resolved =>
                /\ alert_history' = [alert_history EXCEPT ![ref].resolved = TRUE]
                /\ active_alerts' = active_alerts]_vars

\* C19 witness: the four combinations of the two flags are there at once
C19_Witness ==
    \A ack, res \in BOOLEAN :
        \E ref \in DOMAIN alert_history :
            /\ alert_history[ref].acknowledged = ack
            /\ alert_history[ref].resolved = res

(***************************************************************************)
(* Properties of start_monitoring and stop_monitoring (SpecLifecycle).     *)
(***************************************************************************)
\* C20: every thread started by start_monitoring ends once a later
\* stop_monitoring has cleared running, whatever is called afterwards.
C20_WorkersStop ==
    \A i \in ThreadIds :
        (i \in DOMAIN threads /\ threads[i].stopped)
            ~> (i \in DOMAIN threads /\ threads[i].at = "done")
(***************************************************************************)
(* Termination of the adapter workers.                                     *)
(***************************************************************************)
\* the adapter has been told to stop: closed, or no longer a handler of the
\* root logger
Stopped(i) ==
    /\ i \in DOMAIN handlers
    /\ handlers[i].is_async
    /\ \/ handlers[i].closed
       \/ \A k \in DOMAIN root_handlers : root_handlers[k] # i

\* C21: once an AsyncLogHandler is stopped (closed, or removed from the root
\* logger by a later PrismaLogger.initialize), its worker thread eventually
\* terminates.
C21_WorkerTerminates ==
    \A i \in 1..MaxHandlers :
        Stopped(i) ~> (i \in DOMAIN handlers /\ WorkerAt(i) \notin {"get", "emit"})

(***************************************************************************)
(* Access to the shared state of a monitor (SpecAccess).                   *)
(***************************************************************************)
\* C22: no two threads are inside methods that access active_alerts or a
\* timestamp list at the same time when one of them mutates: the reader's
\* _trigger_pattern_match/_create_alert never overlaps a caller's
\* acknowledge_alert, resolve_alert or get_active_alerts.
C22_MutualExclusion ==
    \A a, b \in AccessThreads :
        (a # b /\ in_call[a] # <<>> /\ in_call[b] # <<>>)
            => ~(in_call[a][1].mutates \/ in_call[b][1].mutates)

(***************************************************************************)
(* Configuration of the logging system (SpecConfig).                       *)
(***************************************************************************)
\* C26: an initialize given a log_level that is no level name (in any case)
\* or a log_format that is no supported selector ends in an error, and
\* applies no default level or formatter.
C26_MalformedConfigFails ==
    (\/ Upper(root_config.log_level) \notin LevelNames
     \/ root_config.log_format \notin {"json", "colorful"})
        => root_config.raised

(***************************************************************************)
(* The structured rendering (SpecFormat).                                  *)
(***************************************************************************)
\* C23: for a record logged through log_with_context with a level, a
\* message and a category, the StructuredFormatter output parsed back as
\* JSON has level equal to the level name, message equal to the message,
\* and category equal to the category's value ("audit" for AUDIT).
C23_RoundTrip ==
    \A k \in DOMAIN rendering :
        LET parsed == JsonLoads(rendering[k].output)
        IN  rendering[k].category # NoCategory =>
              /\ parsed["level"] = rendering[k].level
              /\ parsed["message"] = rendering[k].message
              /\ parsed["category"] = CategoryValue(rendering[k].category)

(***************************************************************************)
(* The batch analyzer (SpecAnalyzer).                                      *)
(***************************************************************************)
\* a record is inside the inclusive range [start_time, end_time]; a record
\* with no timestamp that parses is not filtered out
InRange(entry, start_time, end_time) ==
    entry.timestamp.type = "iso" =>
        /\ start_time # NoTime => entry.timestamp.t >= start_time[1].t
        /\ end_time # NoTime => entry.timestamp.t <= end_time[1].t

\* the level a line is to be counted under
Classified(entry, start_time, end_time) ==
    CASE entry.kind = "invalid" -> Keyword(entry.text)
      [] entry.kind = "object" /\ InRange(entry, start_time, end_time) ->
             Upper(entry.level)
      [] OTHER -> ""

CountOf(level, call) ==
    Cardinality({ i \in DOMAIN call.file :
                    Classified(call.file[i], call.start_time, call.end_time) = level })

\* C24: analyze_log_file returns total_lines equal to the number of lines of
\* the file, and error_count, warning_count and critical_count equal to the
\* number of lines classified ERROR, WARNING and CRITICAL (by level for
\* JSON objects inside the inclusive time range, by first keyword for
\* non-JSON lines); the fixture of one INFO, one ERROR and one WARNING
\* record gives 3, 1, 1, 0.
C24_Counts ==
    \A k \in DOMAIN analysis :
        LET call == analysis[k]
        IN  /\ ~call.result.error
            /\ call.result.total_lines = Len(call.file)
            /\ call.result.error_count = CountOf("ERROR", call)
            /\ call.result.warning_count = CountOf("WARNING", call)
            /\ call.result.critical_count = CountOf("CRITICAL", call)
            /\ (call.file = Fixture /\ call.start_time = NoTime /\ call.end_time = NoTime)
                   => call.result = Stats(3, 1, 1, 0)

\* C25: whatever the lines of a readable file contain, analyze_log_file
\* returns statistics, not an error result, and every line counts toward
\* total_lines.
C25_NeverAborts ==
    \A k \in DOMAIN analysis :
        /\ ~analysis[k].result.error
        /\ analysis[k].result.total_lines = Len(analysis[k].file)

(***************************************************************************)
(* The rolling metrics history (SpecMetrics).                              *)
(***************************************************************************)
\* a step in which a metrics worker stores a snapshot
StoresSnapshot ==
    \E i \in DOMAIN threads :
        /\ threads[i].kind = "metrics"
        /\ threads[i].at = "body"
        /\ threads'[i].at = "sleep"

\* the copy of current_metrics a turn of _collect_metrics stores now
StoredCopy == CollectMetrics(current_metrics, metrics_history, now).metrics_copy

\* C27: metrics_history never holds more snapshots than its capacity (100,
\* here HistoryMaxLen); a snapshot appended when it is full evicts exactly
\* the oldest one and keeps the others in order.
C27_BoundedHistory ==
    /\ [](Len(metrics_history) <= HistoryMaxLen)
    /\ [][StoresSnapshot =>
            IF Len(metrics_history) < HistoryMaxLen
            THEN metrics_history' = Append(metrics_history, StoredCopy)
            ELSE /\ Len(metrics_history') = HistoryMaxLen
                 /\ \A k \in 1..(HistoryMaxLen - 1) :
                        metrics_history'[k] = metrics_history[k + 1]
                 /\ metrics_history'[HistoryMaxLen] = StoredCopy]_vars

\* a snapshot has been evicted from a history of distinct snapshots
C27_Witness ==
    /\ appended > HistoryMaxLen
    /\ Len(metrics_history) = HistoryMaxLen
    /\ \A j, k \in DOMAIN metrics_history :
          j < k => metrics_history[j].total_logs < metrics_history[k].total_logs

(***************************************************************************)
(* Registration of patterns (SpecPatterns).                                *)
(***************************************************************************)
\* a pattern of the name is registered and enabled
Watched(name) ==
    \E i \in DOMAIN patterns : patterns[i].name = name /\ patterns[i].enabled

\* the step reads a line
ReadsLine == current_metrics'.total_logs = current_metrics.total_logs + 1

\* the step leaves every alert of the name as it is and makes none
AlertsKept(name) ==
    \A k \in DOMAIN alert_history' :
        alert_history'[k].pattern_name = name =>
            k \in DOMAIN alert_history /\ alert_history'[k] = alert_history[k]

\* C28: add_pattern(p) adds p to the registered patterns; remove_pattern(name)
\* removes every registered pattern of that name and no other; a line
\* processed after the removal, or while the enabled flag is false, creates
\* and updates no alert of that pattern.
C28_Registration ==
    [][/\ Len(patterns') > Len(patterns) =>
            \E p \in AddedPatterns : patterns' = Append(patterns, p)
       /\ Len(patterns') < Len(patterns) =>
            \E name \in PatternNames :
                /\ \A i \in DOMAIN patterns' : patterns'[i].name # name
                /\ \A q \in Range(patterns) :
                      q.name # name =>
                        Cardinality({ i \in DOMAIN patterns' : patterns'[i] = q })
                          = Cardinality({ i \in DOMAIN patterns : patterns[i] = q })
       /\ ReadsLine =>
            \A name \in PatternNames :
                ~Watched(name) => AlertsKept(name)
      ]_vars

\* alerts were made, and then a line was read that no pattern watched (every
\* line read matches every pattern)
C28_Witness ==
    /\ alert_history # <<>>
    /\ \A name \in PatternNames : ~Watched(name)
    /\ Len(match_log) < current_metrics.total_logs

\* C29: no two registered patterns have the same name.
C29_UniqueNames ==
    \A i, j \in DOMAIN patterns :
        i # j => patterns[i].name # patterns[j].name

(***************************************************************************)
(* The merge window (SpecMonitor).                                         *)
(***************************************************************************)
\* C30: _create_alert merges into an unresolved alert only if that alert
\* was made less than 5 minutes (300 s) before now; when every unresolved
\* alert of the pattern is 300 s old or more, a day or more included, a
\* match that reaches the threshold makes a new alert and updates none.
C30_MergeWindowExpiry ==
    [][\A p \in Registered :
        LET name == p.name
            called == /\ pattern_counts'[name] = pattern_counts[name] + 1
                      /\ Len(pattern_timestamps'[name]) >= p.threshold
            merged == { i \in DOMAIN alert_history :
                          /\ alert_history[i].pattern_name = name
                          /\ \/ alert_history'[i].count # alert_history[i].count
                             \/ alert_history'[i].last_occurrence
                                  # alert_history[i].last_occurrence }
            fresh == { k \in DOMAIN active_alerts :
                         LET a == alert_history[active_alerts[k].ref]
                         IN  /\ a.pattern_name = name
                             /\ ~a.resolved
                             /\ now' - a.timestamp < MergeWindowSeconds }
        IN  called =>
              /\ \A i \in merged :
                    now' - alert_history[i].timestamp < MergeWindowSeconds
              /\ fresh = {} =>
                    /\ merged = {}
                    /\ Cardinality(AlertsOf(name)') = Cardinality(AlertsOf(name)) + 1]_vars

(***************************************************************************)
(* The sliding window (SpecWindow).                                        *)
(***************************************************************************)
\* the times of the matches of a pattern so far that are at most its window
\* old at time t, in order
MatchesSince(p) ==
    LET Recent(at) == at >= now - p.time_window_minutes * SecondsPerMinute
    IN  SelectSeq(MatchTimes(p.name), Recent)

\* C31: after _trigger_pattern_match handles a match at time now for a
\* pattern with window W, the pattern's timestamp list holds exactly the
\* times t of its matches with now - W <= t <= now (a timestamp exactly W
\* old is kept), and recent_count, the count given to the alert, is the
\* length of that list.
C31_WindowEviction ==
    [][\A p \in Registered :
         pattern_counts'[p.name] = pattern_counts[p.name] + 1 =>
           /\ pattern_timestamps'[p.name] = MatchesSince(p)'
           /\ \A i \in DOMAIN alert_history' :
                 ( /\ alert_history'[i].pattern_name = p.name
                   /\ i \in DOMAIN alert_history => alert_history'[i] # alert_history[i] )
                    => alert_history'[i].count = Len(MatchesSince(p)')]_vars

\* the unresolved Alert objects of a pattern name
Unresolved(name) == { i \in AlertsOf(name) : ~alert_history[i].resolved }

\* C32: any two unresolved alerts of one pattern name were created at least
\* five minutes (MergeWindowSeconds) apart.
C32_UnresolvedApart ==
    \A name \in PatternNames :
        \A i, j \in Unresolved(name) :
            i < j => alert_history[j].timestamp - alert_history[i].timestamp
                        >= MergeWindowSeconds

\* two unresolved alerts of one pattern name, the second made by a match
\* that found the first one too old to be updated
C32_Witness ==
    \E name \in PatternNames :
        \E i, j \in Unresolved(name) :
            /\ i < j
            /\ IsStored(i) /\ IsStored(j)
            /\ alert_history[j].timestamp - alert_history[i].timestamp
                  >= MergeWindowSeconds

(***************************************************************************)
(* The writes of the wrapped handler (SpecSink).                           *)
(***************************************************************************)
\* C33: at no time are two threads inside target_handler.emit of the same
\* wrapped handler: while the worker of an AsyncLogHandler writes a record,
\* no caller thread writes to that target.
C33_SingleWriter ==
    \A i \in 1..MaxHandlers : Cardinality(Writers(i)) <= 1

\* record r waits in the queue of handler i
Enqueued(i, r) ==
    /\ i \in DOMAIN handlers
    /\ \E k \in DOMAIN handlers[i].queue : handlers[i].queue[k] = r

\* record r has been written by the target of handler i on the given thread
WrittenBy(i, r, thread) ==
    /\ i \in DOMAIN handlers
    /\ \E k \in DOMAIN handlers[i].written :
          /\ handlers[i].written[k].record = r
          /\ handlers[i].written[k].thread = thread

\* the worker's write of record r to the target of handler i raised
WriteFailed(i, r) == [handler |-> i, record |-> r] \in write_errors

\* C34: a write of the worker that raises does not end the worker thread
\* (the caller's call has returned when it put the record on the queue), and
\* every record put on the queue is eventually written by the worker, the
\* records whose own write raised excepted.
C34_FailedWriteNoStop ==
    /\ [](terminated = {})
    /\ \A i \in 1..MaxHandlers, r \in 1..MaxRecords :
          Enqueued(i, r) ~> (WrittenBy(i, r, Worker(i)) \/ WriteFailed(i, r))

\* a write of the worker raised, and the worker has written a record it
\* took from the queue after the one that failed
C34_Witness ==
    \E e \in write_errors :
        \E r \in 1..MaxRecords :
            /\ r > e.record
            /\ WrittenBy(e.handler, r, Worker(e.handler))
            /\ e.handler \notin terminated

(***************************************************************************)
(* Every line is counted and tested (SpecMonitor).                         *)
(***************************************************************************)
\* C35: every line read is counted once in total_logs and is tested against
\* every enabled registered pattern, a JSON object by its message and any
\* other line (valid JSON that is no object included) by its whole text: a
\* line whose tested text holds the phrase is a match of every enabled
\* pattern whose expression finds it, and the reader goes on.
C35_EveryLineTested ==
    [][phrase_lines' = phrase_lines + 1 =>
         /\ current_metrics'.total_logs = current_metrics.total_logs + 1
         /\ reader' = "running"
         /\ \A p \in Registered :
               (p.enabled /\ Search(p.pattern, Phrase)) =>
                   pattern_counts'[p.name] > pattern_counts[p.name]]_vars

(***************************************************************************)
(* The log rate of the snapshots (SpecRate).                               *)
(***************************************************************************)
\* two quotients are the same number
SameNumber(a, b) == a.num * b.den = b.num * a.den

\* C36: every snapshot _collect_metrics appends after the first carries the
\* time at which it was taken, and its log_rate_per_minute is the total_logs
\* it holds minus the total_logs of the snapshot before it, divided by the
\* minutes between the taking of the two.
C36_LogRate ==
    [][(StoresSnapshot /\ last_taken # <<>> /\ metrics_history # <<>>
          /\ now > last_taken[1]) =>
         LET taken == metrics_history'[Len(metrics_history')]
             previous == metrics_history[Len(metrics_history)]
         IN  /\ taken.timestamp = now
             /\ SameNumber(taken.log_rate_per_minute,
                           Quotient((taken.total_logs - previous.total_logs)
                                       * SecondsPerMinute,
                                    now - last_taken[1]))]_vars

(***************************************************************************)
(* The threads of one monitor (SpecLifecycle).                             *)
(***************************************************************************)
\* the threads of a kind that have been started and have not ended
Alive(kind) ==
    { i \in DOMAIN threads : threads[i].kind = kind /\ threads[i].at # "done" }

\* C37: whatever start_monitoring and stop_monitoring calls are made on a
\* monitor, at most one tail reader and at most one metrics thread of it are
\* alive; a step taken while the monitor is running starts no thread, and
\* threads are only ever started as one reader with one metrics thread.
C37_OneWorkerPerKind ==
    /\ [](Cardinality(Alive("reader")) <= 1 /\ Cardinality(Alive("metrics")) <= 1)
    /\ [][/\ running => Len(threads') = Len(threads)
          /\ Len(threads') \in {Len(threads), Len(threads) + 2}]_vars

(***************************************************************************)
(* The counters of a snapshot (SpecSnapshot).                              *)
(***************************************************************************)
\* C38: every snapshot in metrics_history has error_count + warning_count
\* + critical_count <= total_logs, however the metrics worker and the tail
\* reader's processing of JSON and text lines interleave.
C38_SnapshotConsistency ==
    \A k \in DOMAIN metrics_history :
        metrics_history[k].error_count + metrics_history[k].warning_count
            + metrics_history[k].critical_count <= metrics_history[k].total_logs

(***************************************************************************)
(* Independence of the monitors (SpecShared).                              *)
(***************************************************************************)
\* the monitors whose registered patterns the step changes
Changed ==
    { k \in DOMAIN monitors :
        list_objects'[monitors'[k].patterns] # list_objects[monitors[k].patterns] }

\* C39: add_pattern or remove_pattern on one LogMonitor changes the
\* registered patterns of no other LogMonitor and leaves DEFAULT_PATTERNS as
\* it is, for monitors built by create_default_monitor or from one list
\* too: a step changes the patterns of one monitor at most, and never the
\* items of DEFAULT_PATTERNS.
C39_MonitorsIndependent ==
    [][/\ Cardinality(Changed) <= 1
       /\ list_objects'[DefaultPatterns] = list_objects[DefaultPatterns]]_vars

====
